---- MODULE Spec2Model ----
(***************************************************************************)
(* Model of src/services/geminiService.ts: the API key rotation state      *)
(* (failedKeys, currentKeyIndex, stickyKeyIndex), the retrying invoker     *)
(* callGeminiAPI, the response parser parseJsonResponse and the two        *)
(* generateWebsite entry points (the multi-step pipeline and the older     *)
(* single-call variant kept in the same file).                             *)
(*                                                                         *)
(* Indices are 0-based as in the source; API_KEYS is a TLA+ sequence, so   *)
(* the key of index i is API_KEYS[i + 1].                                  *)
(***************************************************************************)
EXTENDS Integers, Sequences, FiniteSets, TLC

VARIABLES
  API_KEYS,          \* the key pool, fixed after load
  failedKeys,        \* Map<number, FailedKeyInfo>: a function on the failed indices
  currentKeyIndex,   \* round-robin cursor
  stickyKeyIndex,    \* sticky key
  now,               \* Date.now()
  run,               \* per run: position and locals of the async call chain
  hist               \* observer: what the last selection returned, failures since

vars == <<API_KEYS, failedKeys, currentKeyIndex, stickyKeyIndex, now, run, hist>>

----------------------------------------------------------------------------
(* Bounds of the model *)

\* pool sizes 0..MaxKeys for whole runs, 1..MaxSelKeys for the key selector alone
MaxKeys == 2
MaxSelKeys == 3
\* the clock stops being advanced by Tick beyond MaxNow
MaxNow == 600002
\* callGeminiAPI calls per behaviour of SpecSel
MaxCalls == 4
\* rejected provider calls per behaviour of Spec
MaxErrors == 3
\* callGeminiAPI calls made by two callers at once
MaxParCalls == 2
\* tokens in the content of a response text handed to parseJsonResponse
MaxTextLen == 3

(* Program constants *)

FAILED_KEY_RESET_MS == 5 * 60 * 1000
MAX_RETRIES == 3
BackoffUnitMs == 1000
MinHtmlChars == 5000
MinCssChars == 3000
MinJsChars == 2000
SeoTitleLen == 60
HtmlTitleLen == 50
HtmlBrandLen == 30
PageBrandLen == 20
HtmlHeadlineLen == 60
PageTitleLen == 30

Runs == {1, 2}
NoKey == -1

\* new Map(): no index has a record
EmptyMap == [i \in {} |-> [failedAt |-> 0, errorCount |-> 0]]

Min(a, b) == IF a < b THEN a ELSE b
Max(a, b) == IF a > b THEN a ELSE b

----------------------------------------------------------------------------
(* Key selector: getNextApiKey and markKeyAsFailed *)

\* for (const [index, info] of failedKeys.entries())
\*   if (now - info.failedAt > FAILED_KEY_RESET_MS) failedKeys.delete(index)
SweepExpired_AtThreshold(fk, t) ==
  LET keep == {i \in DOMAIN fk : ~(t - fk[i].failedAt >= FAILED_KEY_RESET_MS)}
  IN  [i \in keep |-> fk[i]]

SweepExpired_KeepsNone(fk, t) == EmptyMap

SweepExpired(fk, t) ==
  LET keep == {i \in DOMAIN fk : ~(t - fk[i].failedAt > FAILED_KEY_RESET_MS)}
  IN  [i \in keep |-> fk[i]]

\* the while loop of getNextApiKey: at most n probes starting at cur
ScanFrom_LowestIndex(fk, cur, attempts, n) ==
  IF \A i \in 0..(n - 1) : i \in DOMAIN fk
    THEN [found |-> FALSE, index |-> NoKey, cur |-> cur]
    ELSE LET m == CHOOSE i \in 0..(n - 1) :
                    i \notin DOMAIN fk /\ \A j \in 0..(i - 1) : j \in DOMAIN fk
         IN  [found |-> TRUE, index |-> m, cur |-> (m + 1) % n]

ScanFrom_TakesCursor(fk, cur, attempts, n) ==
  [found |-> TRUE, index |-> cur, cur |-> (cur + 1) % n]

RECURSIVE ScanFrom(_, _, _, _)
ScanFrom(fk, cur, attempts, n) ==
  IF attempts >= n
    THEN [found |-> FALSE, index |-> NoKey, cur |-> cur]
    ELSE IF cur \notin DOMAIN fk
      THEN [found |-> TRUE, index |-> cur, cur |-> (cur + 1) % n]
      ELSE ScanFrom(fk, (cur + 1) % n, attempts + 1, n)

\* if (!failedKeys.has(stickyKeyIndex)) return { ..., index: stickyKeyIndex }
SelectSticky_Rotates(swept, cur, sticky, n) ==
  [index |-> cur, failedKeys |-> swept, currentKeyIndex |-> (cur + 1) % n,
   stickyKeyIndex |-> cur, path |-> "sticky"]

SelectSticky_PrefersRecovered(swept, cur, sticky, n) ==
  LET first == IF 0 \notin DOMAIN swept THEN 0 ELSE sticky IN
  [index |-> first, failedKeys |-> swept, currentKeyIndex |-> cur,
   stickyKeyIndex |-> first, path |-> "sticky"]

SelectSticky(swept, cur, sticky, n) ==
  [index |-> sticky, failedKeys |-> swept, currentKeyIndex |-> cur,
   stickyKeyIndex |-> sticky, path |-> "sticky"]

\* the return inside the while loop: the key found becomes the sticky key
SelectScanned_KeepsSticky(swept, s, sticky) ==
  [index |-> s.index, failedKeys |-> swept, currentKeyIndex |-> s.cur,
   stickyKeyIndex |-> sticky, path |-> "scan"]

SelectScanned_ReturnsSticky(swept, s, sticky) ==
  [index |-> sticky, failedKeys |-> swept, currentKeyIndex |-> s.cur,
   stickyKeyIndex |-> s.index, path |-> "scan"]

SelectScanned_ReturnsCursor(swept, s, sticky) ==
  [index |-> s.cur, failedKeys |-> swept, currentKeyIndex |-> s.cur,
   stickyKeyIndex |-> s.index, path |-> "scan"]

SelectScanned(swept, s, sticky) ==
  [index |-> s.index, failedKeys |-> swept, currentKeyIndex |-> s.cur,
   stickyKeyIndex |-> s.index, path |-> "scan"]

\* failedKeys.clear(); stickyKeyIndex = 0; currentKeyIndex = 0; return key 0
SelectReset_KeepsRecords(swept) ==
  [index |-> 0, failedKeys |-> swept, currentKeyIndex |-> 0, stickyKeyIndex |-> 0,
   path |-> "reset"]

SelectReset_KeepsFirst(swept) ==
  [index |-> 0, failedKeys |-> [i \in DOMAIN swept \cap {0} |-> swept[i]],
   currentKeyIndex |-> 0, stickyKeyIndex |-> 0, path |-> "reset"]

SelectReset(swept) ==
  [index |-> 0, failedKeys |-> EmptyMap, currentKeyIndex |-> 0, stickyKeyIndex |-> 0,
   path |-> "reset"]

\* if (API_KEYS.length === 0) return null
SelectNone_Advances(fk, cur, sticky) ==
  [index |-> NoKey, failedKeys |-> fk, currentKeyIndex |-> cur + 1,
   stickyKeyIndex |-> sticky, path |-> "none"]

SelectNone(fk, cur, sticky) ==
  [index |-> NoKey, failedKeys |-> fk, currentKeyIndex |-> cur,
   stickyKeyIndex |-> sticky, path |-> "none"]

GetNextApiKey_SweepsAfterStickyCheck(keys, fk, cur, sticky, t) ==
  LET n == Len(keys) IN
  IF n = 0
    THEN SelectNone(fk, cur, sticky)
    ELSE
      LET swept == SweepExpired(fk, t) IN
      IF sticky \notin DOMAIN fk
        THEN SelectSticky(swept, cur, sticky, n)
        ELSE
          LET s == ScanFrom(swept, cur, 0, n) IN
          IF s.found THEN SelectScanned(swept, s, sticky) ELSE SelectReset(swept)

\* getNextApiKey(): the returned index (NoKey for null), the selector state it
\* leaves behind, and the return statement it left by
GetNextApiKey(keys, fk, cur, sticky, t) ==
  LET n == Len(keys) IN
  IF n = 0
    THEN SelectNone(fk, cur, sticky)
    ELSE
      LET swept == SweepExpired(fk, t) IN
      IF sticky \notin DOMAIN swept
        THEN SelectSticky(swept, cur, sticky, n)
        ELSE
          LET s == ScanFrom(swept, cur, 0, n) IN
          IF s.found THEN SelectScanned(swept, s, sticky) ELSE SelectReset(swept)

\* markKeyAsFailed(index, error): the new failedKeys map
MarkFailedMap_CountOne(fk, index, t) ==
  [i \in DOMAIN fk \cup {index} |->
     IF i = index THEN [failedAt |-> t, errorCount |-> 1] ELSE fk[i]]

MarkFailedMap(fk, index, t) ==
  LET old == IF index \in DOMAIN fk THEN fk[index].errorCount ELSE 0
  IN  [i \in DOMAIN fk \cup {index} |->
         IF i = index THEN [failedAt |-> t, errorCount |-> old + 1] ELSE fk[i]]

\* if (attempt < MAX_RETRIES - 1) await ...: no wait after the last attempt
IsLastAttempt_Early(attempt) == ~(attempt < MAX_RETRIES - 2)

IsLastAttempt_Late(attempt) == ~(attempt < MAX_RETRIES)

IsLastAttempt(attempt) == ~(attempt < MAX_RETRIES - 1)

\* lastError = error
LastError_KeepsFirst(prev, err) == IF prev = "none" THEN err ELSE prev

LastError(prev, err) == err

\* setTimeout(r, 1000 * (attempt + 1))
BackoffDelay_Constant(attempt) == BackoffUnitMs

BackoffDelay(attempt) == BackoffUnitMs * (attempt + 1)

\* markKeyAsFailed(index, error): the new cursor
MarkFailedCursor_NoWrap(index, n) == index + 1

MarkFailedCursor_ToFirst(index, n) == 0

MarkFailedCursor(index, n) == (index + 1) % n

\* getKeyStatus(): the pool size, the pool size less the number of records, and
\* the 1-based positions of the credentials with a record. Array.from lists them
\* in the Map's insertion order, which failedKeys does not keep here: failed is
\* the set of the listed positions
getKeyStatus_ZeroBased(keys, fk) ==
  [total |-> Len(keys),
   available |-> Len(keys) - Cardinality(DOMAIN fk),
   failed |-> DOMAIN fk]

getKeyStatus(keys, fk) ==
  [total |-> Len(keys),
   available |-> Len(keys) - Cardinality(DOMAIN fk),
   failed |-> {i + 1 : i \in DOMAIN fk}]

----------------------------------------------------------------------------
(* Strings, JSON values and provider texts                                 *)
(*                                                                         *)
(* A string is a sequence of characters.  A provider text is a sequence    *)
(* of tokens: the code fence, the word json, white space, prose that is    *)
(* no JSON, or a JSON literal Lit(value).                                  *)

\* s.slice(0, k)
Slice(s, k) == SubSeq(s, 1, Min(k, Len(s)))

\* JSON null, and an object that carries neither path nor content
JNull == [json |-> "null"]
JOther == [error |-> "blocked"]

\* a file object whose content is a string of len characters
ProviderFile(path, len, type) ==
  [path |-> path, content |-> [origin |-> "provider", length |-> len], type |-> type]

ProviderSeo == [title |-> <<"t">>, description |-> <<"d">>, keywords |-> "k"]

\* a value no statement has assigned yet
Undefined == [json |-> "undefined"]

\* `${name}${ext}`
Path(name, ext) == <<name, ext>>

\* the three-backquote marker of a fenced code block, one token
Fence == [tok |-> "fence"]
JsonWord == [tok |-> "json"]
Space == [tok |-> "space"]
Prose == [tok |-> "prose"]
Lit(v) == [tok |-> "lit", lit |-> v]
IsSpace(tok) == tok = Space

RECURSIVE TrimLeft(_)
TrimLeft(s) == IF Len(s) > 0 /\ IsSpace(Head(s)) THEN TrimLeft(Tail(s)) ELSE s

RECURSIVE TrimRight(_)
TrimRight(s) ==
  IF Len(s) > 0 /\ IsSpace(s[Len(s)]) THEN TrimRight(SubSeq(s, 1, Len(s) - 1)) ELSE s

\* s.trim()
Trim(s) == TrimRight(TrimLeft(s))

StartsWith(s, pre) == Len(s) >= Len(pre) /\ SubSeq(s, 1, Len(pre)) = pre
EndsWith(s, suf) ==
  Len(s) >= Len(suf) /\ SubSeq(s, Len(s) - Len(suf) + 1, Len(s)) = suf

IsLiteral(tok) == tok.tok = "lit"

\* JSON.parse(s): a value, or a SyntaxError
JsonParse(s) ==
  IF Len(s) = 1 /\ IsLiteral(s[1])
    THEN [ok |-> TRUE, value |-> s[1].lit]
    ELSE [ok |-> FALSE, value |-> JNull]

\* parseJsonResponse(text)
parseJsonResponse_KeepsTrailingFence(text) ==
  LET t0 == Trim(text)
      t1 == IF StartsWith(t0, <<Fence, JsonWord>>) THEN SubSeq(t0, 3, Len(t0))
            ELSE IF StartsWith(t0, <<Fence>>) THEN SubSeq(t0, 2, Len(t0))
            ELSE t0
  IN  JsonParse(Trim(t1))

parseJsonResponse(text) ==
  LET t0 == Trim(text)
      t1 == IF StartsWith(t0, <<Fence, JsonWord>>) THEN SubSeq(t0, 3, Len(t0))
            ELSE IF StartsWith(t0, <<Fence>>) THEN SubSeq(t0, 2, Len(t0))
            ELSE t0
      t2 == IF EndsWith(t1, <<Fence>>) THEN SubSeq(t1, 1, Len(t1) - 1) ELSE t1
  IN  JsonParse(Trim(t2))

----------------------------------------------------------------------------
(* Static fallbacks *)

\* generateFallbackHTML(prompt, language): the template and what it interpolates
generateFallbackHTML(prompt, language) ==
  [origin |-> "generateFallbackHTML", lang |-> language,
   title |-> Slice(prompt, HtmlTitleLen), brand |-> Slice(prompt, HtmlBrandLen),
   headline |-> Slice(prompt, HtmlHeadlineLen)]

generateFallbackCSS == [origin |-> "generateFallbackCSS"]

generateFallbackJS == [origin |-> "generateFallbackJS"]

\* generateFallbackPage(pageName, ctx)
generateFallbackPage(pageName, ctx) ==
  [origin |-> "generateFallbackPage", page |-> pageName, lang |-> ctx.language,
   title |-> Slice(ctx.prompt, PageTitleLen), brand |-> Slice(ctx.prompt, PageBrandLen)]

\* the catch block of generateSEO
FallbackSeo(ctx) ==
  [title |-> Slice(ctx.prompt, SeoTitleLen), description |-> ctx.prompt,
   keywords |-> "website, landing page"]

\* the catch block of each step: the file it returns
FallbackFile(step, ctx) ==
  CASE step.kind = "html" ->
         [path |-> Path("index", ".html"),
          content |-> generateFallbackHTML(ctx.prompt, ctx.language), type |-> "html"]
    [] step.kind = "css" ->
         [path |-> Path("styles", ".css"), content |-> generateFallbackCSS, type |-> "css"]
    [] step.kind = "js" ->
         [path |-> Path("script", ".js"), content |-> generateFallbackJS, type |-> "js"]
    [] step.kind = "page" ->
         [path |-> Path(step.page, ".html"),
          content |-> generateFallbackPage(step.page, ctx), type |-> "html"]
    [] OTHER -> FallbackSeo(ctx)

\* the minimum content size below which a step re-prompts (0: no size check)
MinChars(kind) ==
  CASE kind = "html" -> MinHtmlChars
    [] kind = "css" -> MinCssChars
    [] kind = "js" -> MinJsChars
    [] OTHER -> 0

----------------------------------------------------------------------------
(* The plan of a run: the steps generateWebsite goes through, in order *)

RECURSIVE PageSteps(_)
PageSteps(pages) ==
  IF pages = <<>> THEN <<>>
  ELSE (IF Head(pages) # "home" THEN <<[kind |-> "page", page |-> Head(pages)]>>
        ELSE <<>>) \o PageSteps(Tail(pages))

Plan_KeepsHome(ctx) ==
  <<[kind |-> "html", page |-> "index"], [kind |-> "css", page |-> "styles"],
    [kind |-> "js", page |-> "script"]>>
  \o (IF ctx.type = "website" /\ Len(ctx.selectedPages) > 0
        THEN [i \in 1..Len(ctx.selectedPages) |->
                [kind |-> "page", page |-> ctx.selectedPages[i]]]
        ELSE <<>>)
  \o (IF ctx.includeAdmin THEN <<[kind |-> "page", page |-> "admin"]>> ELSE <<>>)
  \o <<[kind |-> "seo", page |-> "seo"]>>

Plan_PagesForLanding(ctx) ==
  <<[kind |-> "html", page |-> "index"], [kind |-> "css", page |-> "styles"],
    [kind |-> "js", page |-> "script"]>>
  \o (IF Len(ctx.selectedPages) > 0 THEN PageSteps(ctx.selectedPages) ELSE <<>>)
  \o (IF ctx.includeAdmin THEN <<[kind |-> "page", page |-> "admin"]>> ELSE <<>>)
  \o <<[kind |-> "seo", page |-> "seo"]>>

Plan(ctx) ==
  <<[kind |-> "html", page |-> "index"], [kind |-> "css", page |-> "styles"],
    [kind |-> "js", page |-> "script"]>>
  \o (IF ctx.type = "website" /\ Len(ctx.selectedPages) > 0
        THEN PageSteps(ctx.selectedPages) ELSE <<>>)
  \o (IF ctx.includeAdmin THEN <<[kind |-> "page", page |-> "admin"]>> ELSE <<>>)
  \o <<[kind |-> "seo", page |-> "seo"]>>

----------------------------------------------------------------------------
(* Inputs: requests and provider responses *)

PromptOfLen(n) == [i \in 1..n |-> "x"]
Prompts == {PromptOfLen(2), PromptOfLen(SeoTitleLen + 1)}
Languages == {"vi", "en"}
PageLists == {<<>>, <<"about", "home">>, <<"home", "about", "contact">>}

AllRequests ==
  [prompt : Prompts, language : Languages, type : {"landing", "website"},
   selectedPages : PageLists, includeAdmin : BOOLEAN, referenceImage : {JNull}]

\* the requests tried against a provider that answers anything
Requests ==
  {[prompt |-> PromptOfLen(2), language |-> "en", type |-> "landing",
    selectedPages |-> <<"home", "about", "contact">>, includeAdmin |-> FALSE,
    referenceImage |-> JNull],
   [prompt |-> PromptOfLen(SeoTitleLen + 1), language |-> "vi", type |-> "landing",
    selectedPages |-> <<>>, includeAdmin |-> TRUE, referenceImage |-> JNull]}

\* what generateContent can reject with
Errors == {"quota", "network", "malformed"}

\* the JSON values a provider may answer a step's prompt with
ProviderValues(step) ==
  {JNull, JOther} \cup
  (CASE step.kind = "html" ->
          {ProviderFile(Path("index", ".html"), n, "html") :
             n \in {MinHtmlChars - 1, MinHtmlChars}}
     [] step.kind = "css" ->
          {ProviderFile(Path("styles", ".css"), n, "css") :
             n \in {MinCssChars - 1, MinCssChars}}
     [] step.kind = "js" ->
          {ProviderFile(Path("script", ".js"), n, "js") :
             n \in {MinJsChars - 1, MinJsChars}}
     [] step.kind = "page" -> {ProviderFile(Path(step.page, ".html"), 1, "html")}
     [] OTHER -> {ProviderSeo})

\* response.text || '': bare JSON, fenced JSON, prose, or nothing
ProviderTexts(step) ==
  {<<Lit(v)>> : v \in ProviderValues(step)}
  \cup {<<Fence, JsonWord, Space, Lit(v), Space, Fence>> : v \in ProviderValues(step)}
  \cup {<<Prose>>, <<>>}

----------------------------------------------------------------------------
(* Loading the key pool. The environment maps a variable name to a string or to
   undefined; the slot number is kept apart from the name's text. *)

\* a string value holding the tokens s
Str(s) == [str |-> s]

NumberedSlots == 20

\* import.meta.env[name]
EnvAt(env, name) == IF name \in DOMAIN env THEN env[name] ELSE Undefined

\* a value that is neither undefined nor the empty string
Truthy(v) == v # Undefined /\ v # Str(<<>>)

\* a || b
Or(a, b) == IF Truthy(a) THEN a ELSE b

\* key && typeof key === 'string' && key.trim()
IsKey(key) == Truthy(key) /\ Trim(key.str) # <<>>

\* import.meta.env[`VITE_GEMINI_API_KEY_${i}`] || import.meta.env[`GEMINI_API_KEY_${i}`]
NumberedKey(env, i) ==
  Or(EnvAt(env, <<"VITE_GEMINI_API_KEY_", i>>), EnvAt(env, <<"GEMINI_API_KEY_", i>>))

\* import.meta.env.VITE_GEMINI_API_KEY || import.meta.env.GEMINI_API_KEY
SingleKey(env) == Or(EnvAt(env, <<"VITE_GEMINI_API_KEY">>), EnvAt(env, <<"GEMINI_API_KEY">>))

\* the for loop of loadApiKeys from slot i on
RECURSIVE LoadNumbered(_, _)
LoadNumbered(env, i) ==
  IF i > NumberedSlots THEN <<>>
  ELSE (IF IsKey(NumberedKey(env, i)) THEN <<Trim(NumberedKey(env, i).str)>> ELSE <<>>)
       \o LoadNumbered(env, i + 1)

loadApiKeys_AppendsSingle(env) ==
  LoadNumbered(env, 1)
  \o (IF IsKey(SingleKey(env)) THEN <<Trim(SingleKey(env).str)>> ELSE <<>>)

loadApiKeys(env) ==
  LET keys == LoadNumbered(env, 1) IN
  IF Len(keys) = 0
    THEN IF IsKey(SingleKey(env)) THEN <<Trim(SingleKey(env).str)>> ELSE <<>>
    ELSE keys

----------------------------------------------------------------------------
(* The prompts of the steps and the contents of a provider call. A prompt is the
   record of the template it is built from and of the values interpolated into
   it; the modelled requests carry no selectedOptions and no referenceUrl. *)

\* const lang = language === 'vi' ? 'Tieng Viet' : 'English'
LangName(language) == IF language = "vi" THEN "Tieng Viet" ELSE "English"

\* the prompt of generateHTML(ctx)
HtmlPrompt(ctx) ==
  [template |-> "generateHTML", prompt |-> ctx.prompt, lang |-> LangName(ctx.language)]

\* the prompt of generateCSS(ctx, htmlContent)
CssPrompt(ctx, htmlContent) == [template |-> "generateCSS", prompt |-> ctx.prompt]

\* the prompt of generateJS(ctx)
JsPrompt(ctx) == [template |-> "generateJS", prompt |-> ctx.prompt]

\* the prompt of generatePage(pageName, ctx)
PagePrompt(pageName, ctx) ==
  [template |-> "generatePage", page |-> pageName, prompt |-> ctx.prompt,
   lang |-> LangName(ctx.language)]

\* the prompt of generateSEO(ctx)
SeoPrompt(ctx) ==
  [template |-> "generateSEO", prompt |-> ctx.prompt, lang |-> LangName(ctx.language)]

\* const stricterPrompt = prompt + `... (${charCount} chars) ...`
StricterPrompt(prompt, charCount) ==
  [template |-> "stricter", prompt |-> prompt, charCount |-> charCount]

\* htmlFile.content: undefined when the object has no content
ContentOf(file) == IF "content" \in DOMAIN file THEN file.content ELSE Undefined

\* the prompt the step passes to its first callGeminiAPI call; files holds what
\* the earlier steps have pushed
StepPrompt(step, ctx, files) ==
  CASE step.kind = "html" -> HtmlPrompt(ctx)
    [] step.kind = "css" -> CssPrompt(ctx, ContentOf(files[1]))
    [] step.kind = "js" -> JsPrompt(ctx)
    [] step.kind = "page" -> PagePrompt(step.page, ctx)
    [] OTHER -> SeoPrompt(ctx)

\* contents: [{ role: 'user', parts: [{ text: prompt }] }]
TextOnly(prompt) == <<[role |-> "user", parts |-> <<[text |-> prompt]>>]>>

\* s.split(sep), for a one-token separator
RECURSIVE Split(_, _)
Split(s, sep) ==
  IF \E i \in 1..Len(s) : s[i] = sep
    THEN LET i == CHOOSE k \in 1..Len(s) : s[k] = sep /\ \A j \in 1..(k - 1) : s[j] # sep
         IN  <<SubSeq(s, 1, i - 1)>> \o Split(SubSeq(s, i + 1, Len(s)), sep)
    ELSE <<s>>

\* parts[k] of a JavaScript array: undefined past its end
At(parts, k) == IF k < Len(parts) THEN parts[k + 1] ELSE Undefined

\* the text 'data:image' as tokens
DataImage == <<"data", ":", "image">>

\* the systemPrompt of the single-call generateWebsite
SystemPrompt(req) ==
  [template |-> "system",
   websiteType |-> IF req.type = "landing" THEN "single-page landing page"
                                            ELSE "multi-page website",
   lang |-> LangName(req.language),
   pages |-> IF req.type = "website" THEN req.selectedPages ELSE <<>>,
   admin |-> req.includeAdmin]

\* the contents the single-call generateWebsite builds before its retry loop
SingleCallContents(req) ==
  LET referenceImage == req.referenceImage IN
  IF referenceImage # JNull /\ referenceImage # <<>> /\ StartsWith(referenceImage, DataImage)
    THEN <<[role |-> "user",
            parts |-> <<[inlineData |->
                           [mimeType |-> At(Split(At(Split(referenceImage, ";"), 0), ":"), 1),
                            data |-> At(Split(referenceImage, ","), 1)]],
                        [text |-> [template |-> "image", prompt |-> req.prompt,
                                   systemPrompt |-> SystemPrompt(req)]]>>]>>
    ELSE <<[role |-> "user",
            parts |-> <<[text |-> [template |-> "text", prompt |-> req.prompt,
                                   systemPrompt |-> SystemPrompt(req)]]>>]>>

----------------------------------------------------------------------------
(* Runs *)

NoCtx ==
  [prompt |-> <<>>, language |-> "en", type |-> "landing", selectedPages |-> <<>>,
   includeAdmin |-> FALSE, referenceImage |-> JNull]

IdleRun ==
  [pc |-> "idle", variant |-> "none", ctx |-> NoCtx, step |-> 0, phase |-> 0,
   attempt |-> 0, keyInfo |-> NoKey, lastError |-> "none", wakeAt |-> 0,
   delays |-> <<>>, sent |-> 0, contents |-> <<>>, text |-> <<>>,
   files |-> <<>>, seo |-> Undefined, data |-> Undefined, error |-> "none"]

\* the locals of a call that has just entered callGeminiAPI (or the retry loop of
\* the single-call generateWebsite)
EnterCall(me) ==
  [me EXCEPT !.pc = "select", !.attempt = 0, !.keyInfo = NoKey, !.lastError = "none",
             !.delays = <<>>, !.sent = 0]

CurrentStep(me) == Plan(me.ctx)[me.step]

\* the step me has just entered builds its prompt
WithPrompt(me) ==
  [me EXCEPT !.contents = TextOnly(StepPrompt(CurrentStep(me), me.ctx, me.files))]

\* console.log(files.map(f => f.path)) and return { files, seo }
FinishPipeline(me, seo) ==
  IF \E i \in 1..Len(me.files) : me.files[i] = JNull
    THEN [me EXCEPT !.pc = "raised", !.seo = seo, !.error = "TypeError"]
    ELSE [me EXCEPT !.pc = "returned", !.seo = seo,
                    !.data = [files |-> me.files, seo |-> seo]]

\* a step of generateWebsite has returned value v: push it and go on
StepDone_SkipsStep(me, v) ==
  LET step == CurrentStep(me) IN
  IF step.kind = "seo" THEN FinishPipeline(me, v)
  ELSE IF step.kind = "html" /\ v = JNull
    THEN [me EXCEPT !.pc = "raised", !.files = Append(@, v), !.error = "TypeError"]
    ELSE EnterCall(WithPrompt([me EXCEPT !.files = Append(@, v), !.step = @ + 2,
                                         !.phase = 1]))

StepDone(me, v) ==
  LET step == CurrentStep(me) IN
  IF step.kind = "seo" THEN FinishPipeline(me, v)
  ELSE IF step.kind = "html" /\ v = JNull
    THEN [me EXCEPT !.pc = "raised", !.files = Append(@, v), !.error = "TypeError"]
    ELSE EnterCall(WithPrompt([me EXCEPT !.files = Append(@, v), !.step = @ + 1,
                                         !.phase = 1]))

\* the fallback artifact the single-call generateWebsite returns after its loop
SingleCallFallback(ctx) ==
  [files |-> <<[path |-> Path("index", ".html"),
                content |-> [origin |-> "generateFallbackHTML (single-call)",
                             lang |-> ctx.language,
                             title |-> Slice(ctx.prompt, HtmlTitleLen),
                             brand |-> Slice(ctx.prompt, HtmlBrandLen),
                             headline |-> Slice(ctx.prompt, SeoTitleLen)],
                type |-> "html"],
               [path |-> Path("styles", ".css"),
                content |-> [origin |-> "generateFallbackCSS (single-call)"],
                type |-> "css"]>>,
   seo |-> FallbackSeo(ctx)]

\* callGeminiAPI threw err (no keys, or retries exhausted)
CallThrew_Propagates(me, err) ==
  IF me.variant \in {"multi", "single"}
    THEN [me EXCEPT !.pc = "raised", !.error = err]
    ELSE [me EXCEPT !.pc = "idle", !.error = err, !.data = Undefined]

CallThrew(me, err) ==
  CASE me.variant = "multi" -> StepDone(me, FallbackFile(CurrentStep(me), me.ctx))
    [] me.variant = "single" -> [me EXCEPT !.pc = "raised", !.error = err]
    [] OTHER -> [me EXCEPT !.pc = "idle", !.error = err, !.data = Undefined]

\* callGeminiAPI returned text to a step of the pipeline
StepAfterText_RepromptsAgain(me, text) ==
  LET step == CurrentStep(me)
      p == parseJsonResponse(text)
      fallback == StepDone(me, FallbackFile(step, me.ctx))
  IN
  IF ~p.ok THEN fallback
  ELSE IF step.kind \in {"html", "css", "js"} /\ me.phase < 3
    THEN IF p.value = JNull \/ "content" \notin DOMAIN p.value
           THEN fallback
         ELSE IF p.value.content.length < MinChars(step.kind)
           THEN EnterCall([me EXCEPT !.phase = @ + 1,
                                     !.contents = TextOnly(StricterPrompt(
                                        StepPrompt(step, me.ctx, me.files),
                                        p.value.content.length))])
         ELSE StepDone(me, p.value)
  ELSE StepDone(me, p.value)

StepAfterText_ThrowsOnParse(me, text) ==
  LET step == CurrentStep(me)
      p == parseJsonResponse(text)
      fallback == StepDone(me, FallbackFile(step, me.ctx))
  IN
  IF ~p.ok THEN [me EXCEPT !.pc = "raised", !.error = "SyntaxError"]
  ELSE IF step.kind \in {"html", "css", "js"} /\ me.phase = 1
    THEN IF p.value = JNull \/ "content" \notin DOMAIN p.value
           THEN fallback
         ELSE IF p.value.content.length < MinChars(step.kind)
           THEN EnterCall([me EXCEPT !.phase = 2,
                                     !.contents = TextOnly(StricterPrompt(
                                        StepPrompt(step, me.ctx, me.files),
                                        p.value.content.length))])
         ELSE StepDone(me, p.value)
  ELSE StepDone(me, p.value)

StepAfterText_MeasuresAgain(me, text) ==
  LET step == CurrentStep(me)
      p == parseJsonResponse(text)
      fallback == StepDone(me, FallbackFile(step, me.ctx))
  IN
  IF ~p.ok THEN fallback
  ELSE IF step.kind \in {"html", "css", "js"} /\ me.phase = 1
    THEN IF p.value = JNull \/ "content" \notin DOMAIN p.value
           THEN fallback
         ELSE IF p.value.content.length < MinChars(step.kind)
           THEN EnterCall([me EXCEPT !.phase = 2,
                                     !.contents = TextOnly(StricterPrompt(
                                        StepPrompt(step, me.ctx, me.files),
                                        p.value.content.length))])
         ELSE StepDone(me, p.value)
  ELSE IF /\ step.kind \in {"html", "css", "js"}
          /\ p.value # JNull
          /\ "content" \in DOMAIN p.value
          /\ p.value.content.length < MinChars(step.kind)
    THEN fallback
  ELSE StepDone(me, p.value)

StepAfterText(me, text) ==
  LET step == CurrentStep(me)
      p == parseJsonResponse(text)
      fallback == StepDone(me, FallbackFile(step, me.ctx))
  IN
  IF ~p.ok THEN fallback
  ELSE IF step.kind \in {"html", "css", "js"} /\ me.phase = 1
    THEN IF p.value = JNull \/ "content" \notin DOMAIN p.value
           THEN fallback
         ELSE IF p.value.content.length < MinChars(step.kind)
           THEN EnterCall([me EXCEPT !.phase = 2,
                                     !.contents = TextOnly(StricterPrompt(
                                        StepPrompt(step, me.ctx, me.files),
                                        p.value.content.length))])
         ELSE StepDone(me, p.value)
  ELSE StepDone(me, p.value)

\* callGeminiAPI returned text
CallReturned(me, text) ==
  IF me.variant = "multi" THEN StepAfterText(me, text)
  ELSE [me EXCEPT !.pc = "idle", !.error = "none", !.data = [text |-> text]]

----------------------------------------------------------------------------
(* Actions *)

Me(r) == run[r]

\* bookkeeping of the provider attempts, the recorded failures and the backoff
\* waits of the step a pipeline run is in (budget), and of the step it has left
\* most recently (spent, with the callGeminiAPI calls it made), and the most attempts any step of the run has made
\* (peak); it is kept where hist.audit asks for it
NoBudget == [sent |-> 0, failed |-> 0, waits |-> 0]
NoSpent == [kind |-> "none", calls |-> 0, sent |-> 0, failed |-> 0, waits |-> 0]
StepLeft(old, new) ==
  new.step # old.step \/ new.pc \notin {"select", "await", "backoff"}
Account(h, r, old, new, b) ==
  IF old.variant # "multi" \/ ~h.audit THEN h
  ELSE IF StepLeft(old, new)
    THEN [h EXCEPT !.budget[r] = NoBudget, !.peak[r] = Max(@, b.sent),
                   !.spent[r] = [kind |-> CurrentStep(old).kind, calls |-> old.phase,
                                 sent |-> b.sent,
                                 failed |-> b.failed, waits |-> b.waits]]
  ELSE [h EXCEPT !.budget[r] = b, !.peak[r] = Max(@, b.sent)]
SetRun(r, rec) == run' = [run EXCEPT ![r] = rec]

\* the last n entries of s
LastN(s, n) == SubSeq(s, Max(1, Len(s) - n + 1), Len(s))

\* generateWebsite(prompt, language, type, selectedPages, ..., includeAdmin): the
\* multi-step pipeline is entered and generateHTML calls callGeminiAPI
StartRun(r, req) ==
  /\ Me(r).pc = "idle"
  /\ Me(r).variant = "none"
  /\ SetRun(r, EnterCall(WithPrompt([IdleRun EXCEPT !.variant = "multi", !.ctx = req,
                                                    !.step = 1, !.phase = 1])))
  /\ UNCHANGED <<API_KEYS, failedKeys, currentKeyIndex, stickyKeyIndex, now, hist>>

\* the single-call generateWebsite is entered and reaches its retry loop
StartSingle(r, req) ==
  /\ Me(r).pc = "idle"
  /\ Me(r).variant = "none"
  /\ SetRun(r, EnterCall([IdleRun EXCEPT !.variant = "single", !.ctx = req,
                                         !.contents = SingleCallContents(req)]))
  /\ UNCHANGED <<API_KEYS, failedKeys, currentKeyIndex, stickyKeyIndex, now, hist>>

\* one more callGeminiAPI(prompt) is entered by some step of some run
StartCall(r) ==
  /\ Me(r).pc = "idle"
  /\ Me(r).variant \in {"none", "invoke"}
  /\ hist.calls < MaxCalls
  /\ SetRun(r, EnterCall([IdleRun EXCEPT !.variant = "invoke",
                                         !.contents = TextOnly(<<>>)]))
  /\ hist' = [hist EXCEPT !.calls = @ + 1]
  /\ UNCHANGED <<API_KEYS, failedKeys, currentKeyIndex, stickyKeyIndex, now>>

\* const keyInfo = getNextApiKey(); if (!keyInfo) throw ...; generateContent(...)
Select(r) ==
  /\ Me(r).pc = "select"
  /\ LET g == GetNextApiKey(API_KEYS, failedKeys, currentKeyIndex, stickyKeyIndex, now)
         new == IF g.index = NoKey
                  THEN CallThrew(Me(r), "No API keys available")
                  ELSE [Me(r) EXCEPT !.pc = "await", !.keyInfo = g.index, !.sent = @ + 1]
     IN  /\ failedKeys' = g.failedKeys
         /\ currentKeyIndex' = g.currentKeyIndex
         /\ stickyKeyIndex' = g.stickyKeyIndex
         /\ hist' = Account(
                     [hist EXCEPT !.lastSel = g.index, !.failedSince = FALSE,
                                 !.selAt = now, !.path = g.path,
                                 !.repeat = (hist.lastSel # NoKey /\ ~hist.failedSince),
                                 !.firstKey[r] = IF Me(r).variant = "multi" /\ @ = NoKey
                                                   THEN g.index ELSE @,
                                 !.tried[r] = IF Me(r).sent = 0 THEN <<g.index>>
                                                                ELSE Append(@, g.index),
                                 !.clean[r] = IF Me(r).sent = 0
                                                THEN g.failedKeys = EmptyMap
                                                       /\ g.path = "sticky"
                                                ELSE @ /\ DOMAIN g.failedKeys
                                                            = DOMAIN failedKeys],
                     r, Me(r), new,
                     IF g.index = NoKey THEN hist.budget[r]
                                        ELSE [hist.budget[r] EXCEPT !.sent = @ + 1])
         /\ SetRun(r, new)
  /\ UNCHANGED <<API_KEYS, now>>

\* the catch block of the retry loop: markKeyAsFailed, then back off, or leave
\* the loop after the last attempt
AttemptFails(r, err) ==
  LET me == [Me(r) EXCEPT !.lastError = LastError(@, err)]
      last == IsLastAttempt(me.attempt)
      new == IF ~last
               THEN [me EXCEPT !.pc = "backoff",
                               !.wakeAt = now + BackoffDelay(me.attempt),
                               !.delays = Append(@, BackoffDelay(me.attempt))]
             ELSE IF me.variant = "single"
               THEN [me EXCEPT !.pc = "returned",
                               !.data = SingleCallFallback(me.ctx)]
             ELSE CallThrew(me, me.lastError)
  IN  /\ failedKeys' = MarkFailedMap(failedKeys, me.keyInfo, now)
      /\ currentKeyIndex' = MarkFailedCursor(me.keyInfo, Len(API_KEYS))
      /\ hist' = Account(
                  [hist EXCEPT !.failedSince = TRUE, !.errors = @ + 1,
                               !.lastFailed = me.keyInfo,
                               !.streak = LastN(Append(@, me.keyInfo), Len(API_KEYS))],
                  r, Me(r), new,
                  [hist.budget[r] EXCEPT !.failed = @ + 1,
                                         !.waits = IF last THEN @ ELSE @ + 1])
      /\ SetRun(r, new)
      /\ UNCHANGED <<API_KEYS, stickyKeyIndex, now>>

\* generateContent rejects
RespondError(r, err) ==
  /\ Me(r).pc = "await"
  /\ AttemptFails(r, err)

\* what the provider may answer the pending call of run r with
TextsFor(me) ==
  CASE me.variant = "multi" -> ProviderTexts(CurrentStep(me))
    [] me.variant = "single" ->
         {<<Lit(v)>> : v \in {JNull, JOther, [files |-> <<>>, seo |-> ProviderSeo]}}
         \cup {<<Prose>>, <<>>}
    [] OTHER -> {<<Lit(ProviderSeo)>>, <<Prose>>, <<>>}

RespondText_ClearsRecords(r, text) ==
  /\ Me(r).pc = "await"
  /\ text \in TextsFor(Me(r))
  /\ Me(r).variant # "single"
  /\ SetRun(r, CallReturned(Me(r), text))
  /\ hist' = [hist EXCEPT !.streak = <<>>]
  /\ failedKeys' = EmptyMap
  /\ UNCHANGED <<API_KEYS, currentKeyIndex, stickyKeyIndex, now>>

RespondText_RetriesUnparsable(r, text) ==
  /\ Me(r).pc = "await"
  /\ text \in TextsFor(Me(r))
  /\ IF Me(r).variant = "single" \/ ~parseJsonResponse(text).ok
       THEN LET p == parseJsonResponse(text) IN
            IF p.ok
              THEN /\ SetRun(r, [Me(r) EXCEPT !.pc = "returned", !.data = p.value])
                   /\ hist' = [hist EXCEPT !.streak = <<>>]
                   /\ UNCHANGED <<API_KEYS, failedKeys, currentKeyIndex,
                                  stickyKeyIndex, now>>
              ELSE AttemptFails(r, "SyntaxError")
       ELSE /\ SetRun(r, CallReturned(Me(r), text))
            /\ hist' = Account([hist EXCEPT !.streak = <<>>], r, Me(r),
                               CallReturned(Me(r), text), hist.budget[r])
            /\ UNCHANGED <<API_KEYS, failedKeys, currentKeyIndex, stickyKeyIndex, now>>

\* generateContent resolves with response.text = text
RespondText(r, text) ==
  /\ Me(r).pc = "await"
  /\ text \in TextsFor(Me(r))
  /\ IF Me(r).variant = "single"
       THEN LET p == parseJsonResponse(text) IN
            IF p.ok
              THEN /\ SetRun(r, [Me(r) EXCEPT !.pc = "returned", !.data = p.value])
                   /\ hist' = [hist EXCEPT !.streak = <<>>]
                   /\ UNCHANGED <<API_KEYS, failedKeys, currentKeyIndex,
                                  stickyKeyIndex, now>>
              ELSE AttemptFails(r, "SyntaxError")
       ELSE /\ SetRun(r, CallReturned(Me(r), text))
            /\ hist' = Account([hist EXCEPT !.streak = <<>>], r, Me(r),
                               CallReturned(Me(r), text), hist.budget[r])
            /\ UNCHANGED <<API_KEYS, failedKeys, currentKeyIndex, stickyKeyIndex, now>>

\* await new Promise(r => setTimeout(r, 1000 * (attempt + 1))) is over
Wake(r) ==
  /\ Me(r).pc = "backoff"
  /\ now' = Max(now, Me(r).wakeAt)
  /\ SetRun(r, [Me(r) EXCEPT !.pc = "select", !.attempt = @ + 1, !.wakeAt = 0])
  /\ UNCHANGED <<API_KEYS, failedKeys, currentKeyIndex, stickyKeyIndex, hist>>

\* time passes
TickSteps == {FAILED_KEY_RESET_MS, FAILED_KEY_RESET_MS + 1}

Tick(d) ==
  /\ now + d <= MaxNow
  /\ now' = now + d
  /\ UNCHANGED <<API_KEYS, failedKeys, currentKeyIndex, stickyKeyIndex, run, hist>>

\* a caller reads getKeyStatus() and keeps what it returns
KeyStatus(r) ==
  /\ Me(r).pc = "idle"
  /\ Me(r).variant \in {"none", "status"}
  /\ SetRun(r, [IdleRun EXCEPT !.variant = "status",
                               !.data = getKeyStatus(API_KEYS, failedKeys)])
  /\ hist' = [hist EXCEPT !.expiredAtRead =
                             {i \in DOMAIN failedKeys :
                                now - failedKeys[i].failedAt > FAILED_KEY_RESET_MS}]
  /\ UNCHANGED <<API_KEYS, failedKeys, currentKeyIndex, stickyKeyIndex, now>>

----------------------------------------------------------------------------------------------------------------------------------------
(* Specifications *)

KeysOfLen(n) == [i \in 1..n |-> <<"key", i>>]

\* the module has just been loaded
Loaded(sizes) ==
  /\ API_KEYS \in {KeysOfLen(n) : n \in sizes}
  /\ failedKeys = EmptyMap
  /\ currentKeyIndex = 0
  /\ stickyKeyIndex = 0
  /\ now = 0
  /\ run = [r \in Runs |-> IdleRun]
  /\ hist = [lastSel |-> NoKey, failedSince |-> FALSE, streak |-> <<>>, calls |-> 0,
             errors |-> 0, selAt |-> 0, path |-> "none", repeat |-> FALSE,
             lastFailed |-> NoKey, firstKey |-> [r \in Runs |-> NoKey],
             tried |-> [r \in Runs |-> <<>>], clean |-> [r \in Runs |-> FALSE],
             audit |-> FALSE,
             budget |-> [r \in Runs |-> NoBudget], spent |-> [r \in Runs |-> NoSpent],
             peak |-> [r \in Runs |-> 0], expiredAtRead |-> {}]

Init == Loaded(0..MaxKeys)

\* one run of generateWebsite (either entry point) in a fresh process, against a
\* provider that answers anything and rejects at most MaxErrors calls; the clock
\* advances by the backoff waits
Next ==
  \/ \E req \in Requests : StartRun(1, req)
  \/ \E req \in Requests : StartSingle(1, req)
  \/ Select(1)
  \/ (hist.errors < MaxErrors /\ \E err \in Errors : RespondError(1, err))
  \/ \E text \in TextsFor(Me(1)) : RespondText(1, text)
  \/ Wake(1)

Spec == Init /\ [][Next]_vars

\* one run of the pipeline against a provider that rejects every call
NextDown ==
  \/ \E req \in AllRequests : StartRun(1, req)
  \/ Select(1)
  \/ RespondError(1, "network")
  \/ Wake(1)

SpecDown == Init /\ [][NextDown]_vars

\* the key selector under a sequence of callGeminiAPI calls, as the steps of
\* successive runs issue them, with time passing in between
InitSel == Loaded(0..MaxSelKeys)

NextSel ==
  \/ StartCall(1)
  \/ Select(1)
  \/ \E err \in Errors : RespondError(1, err)
  \/ \E text \in TextsFor(Me(1)) : RespondText(1, text)
  \/ Wake(1)
  \/ \E d \in TickSteps : Tick(d)

SpecSel == InitSel /\ [][NextSel]_vars

\* the answers of a provider that, when it answers, returns what the prompt asks
\* for (the step's file at full size, or an SEO record) or a text that does not
\* parse. It is a part of TextsFor: null, objects without the fields, undersized
\* files, fenced and empty texts are left to Spec and SpecBudget, so a run
\* answered from it neither re-prompts nor raises
FileTexts(me) ==
  {<<Lit(v)>> : v \in {w \in ProviderValues(CurrentStep(me)) :
                         /\ w \notin {JNull, JOther}
                         /\ ("content" \in DOMAIN w
                               => w.content.length >= MinChars(CurrentStep(me).kind))}}
  \cup {<<Prose>>}

\* one run of the multi-step pipeline for any request, against a provider that
\* rejects at most MaxErrors calls and otherwise answers from FileTexts: the
\* order of the steps and the order of the files for every request
NextSteps ==
  \/ \E req \in AllRequests : StartRun(1, req)
  \/ Select(1)
  \/ (hist.errors < MaxErrors /\ RespondError(1, "network"))
  \/ (Me(1).variant = "multi" /\ \E text \in FileTexts(Me(1)) : RespondText(1, text))
  \/ Wake(1)

SpecSteps == Init /\ [][NextSteps]_vars

\* two runs of the pipeline side by side, against a provider that rejects nothing
\* and answers each prompt with a full-size file or with prose
NextPair ==
  \E r \in Runs :
    \/ \E req \in Requests : StartRun(r, req)
    \/ Select(r)
    \/ (Me(r).variant = "multi" /\ \E text \in FileTexts(Me(r)) : RespondText(r, text))

SpecPair == Init /\ [][NextPair]_vars

\* the full-size and the undersized files a provider may answer a step with
SizedTexts(me) ==
  {<<Lit(v)>> : v \in ProviderValues(CurrentStep(me)) \ {JNull, JOther}}

\* a pipeline run whose provider calls all succeed, in a process whose selector
\* has been used before: callGeminiAPI calls of an earlier caller fail until the
\* run begins, and records expire as time passes
NextSticky ==
  \/ (Me(1).variant = "none" /\ hist.calls < MaxParCalls /\ StartCall(2))
  \/ \E r \in Runs : Select(r)
  \/ (Me(1).variant = "none" /\ RespondError(2, "quota"))
  \/ RespondText(2, <<Prose>>)
  \/ Wake(2)
  \/ \E req \in {q \in Requests : ~q.includeAdmin} : StartRun(1, req)
  \/ (Me(1).variant = "multi" /\ \E text \in SizedTexts(Me(1)) : RespondText(1, text))
  \/ \E d \in TickSteps : Tick(d)

SpecSticky == Init /\ [][NextSticky]_vars

\* one run of the pipeline against a provider that may reject any call, any number
\* of times, and otherwise answers with a file of full size, an undersized one, or
\* a text that does not parse
BudgetTexts(me) == SizedTexts(me) \cup {<<Prose>>}

BudgetRequests ==
  {[prompt |-> PromptOfLen(2), language |-> "en", type |-> "website",
    selectedPages |-> <<"about", "home">>, includeAdmin |-> FALSE,
    referenceImage |-> JNull]}

NextBudget ==
  \/ \E req \in BudgetRequests : StartRun(1, req)
  \/ Select(1)
  \/ RespondError(1, "quota")
  \/ (Me(1).variant = "multi" /\ \E text \in BudgetTexts(Me(1)) : RespondText(1, text))
  \/ Wake(1)

InitBudget ==
  /\ API_KEYS \in {KeysOfLen(n) : n \in {1, MaxKeys}}
  /\ failedKeys = EmptyMap
  /\ currentKeyIndex = 0
  /\ stickyKeyIndex = 0
  /\ now = 0
  /\ run = [r \in Runs |-> IdleRun]
  /\ hist = [lastSel |-> NoKey, failedSince |-> FALSE, streak |-> <<>>, calls |-> 0,
             errors |-> 0, selAt |-> 0, path |-> "none", repeat |-> FALSE,
             lastFailed |-> NoKey, firstKey |-> [r \in Runs |-> NoKey],
             tried |-> [r \in Runs |-> <<>>], clean |-> [r \in Runs |-> FALSE],
             audit |-> TRUE,
             budget |-> [r \in Runs |-> NoBudget], spent |-> [r \in Runs |-> NoSpent],
             peak |-> [r \in Runs |-> 0], expiredAtRead |-> {}]

SpecBudget == InitBudget /\ [][NextBudget]_vars

\* callGeminiAPI calls whose attempts are rejected or answered, with time passing,
\* and a second caller that reads the key status at any moment
NextStatus ==
  \/ StartCall(1)
  \/ Select(1)
  \/ RespondError(1, "quota")
  \/ RespondText(1, <<Prose>>)
  \/ Wake(1)
  \/ \E d \in TickSteps : Tick(d)
  \/ KeyStatus(2)

SpecStatus == Init /\ [][NextStatus]_vars

\* the module is being loaded in some environment, and callGeminiAPI calls follow.
\* The environments set the variables of the first and the last numbered slot, of
\* the slot after the last, and the two unnumbered ones; a value is absent, empty,
\* blank, or a key in blanks, and a key names the variable it comes from
EnvSlots == {1, NumberedSlots, NumberedSlots + 1}

EnvNames ==
  {<<"VITE_GEMINI_API_KEY_", i>> : i \in EnvSlots}
  \cup {<<"GEMINI_API_KEY_", i>> : i \in EnvSlots}
  \cup {<<"VITE_GEMINI_API_KEY">>, <<"GEMINI_API_KEY">>}

KeyOf(name) == [tok |-> "key", of |-> name]

EnvKinds == {"undefined", "empty", "blank", "key"}

EnvValue(name, kind) ==
  CASE kind = "undefined" -> Undefined
    [] kind = "empty" -> Str(<<>>)
    [] kind = "blank" -> Str(<<Space>>)
    [] OTHER -> Str(<<Space, KeyOf(name), Space>>)

Envs == {[name \in EnvNames |-> EnvValue(name, kinds[name])] :
           kinds \in [EnvNames -> EnvKinds]}

InitLoad ==
  /\ API_KEYS = <<>>
  /\ failedKeys = EmptyMap
  /\ currentKeyIndex = 0
  /\ stickyKeyIndex = 0
  /\ now = 0
  /\ hist = [lastSel |-> NoKey, failedSince |-> FALSE, streak |-> <<>>, calls |-> 0,
             errors |-> 0, selAt |-> 0, path |-> "none", repeat |-> FALSE,
             lastFailed |-> NoKey, firstKey |-> [r \in Runs |-> NoKey],
             tried |-> [r \in Runs |-> <<>>], clean |-> [r \in Runs |-> FALSE],
             audit |-> FALSE,
             budget |-> [r \in Runs |-> NoBudget], spent |-> [r \in Runs |-> NoSpent],
             peak |-> [r \in Runs |-> 0], expiredAtRead |-> {}]
  /\ \E env \in Envs :
       run = [r \in Runs |->
                IF r = 1 THEN [IdleRun EXCEPT !.pc = "load", !.variant = "load",
                                              !.data = env]
                         ELSE IdleRun]

\* const API_KEYS = loadApiKeys()
Load(r) ==
  /\ Me(r).pc = "load"
  /\ API_KEYS' = loadApiKeys(Me(r).data)
  /\ SetRun(r, IdleRun)
  /\ UNCHANGED <<failedKeys, currentKeyIndex, stickyKeyIndex, now, hist>>

NextLoad ==
  \/ Load(1)
  \/ (hist.calls < MaxParCalls /\ StartCall(1))
  \/ Select(1)
  \/ RespondError(1, "quota")
  \/ RespondText(1, <<Prose>>)
  \/ Wake(1)

SpecLoad == InitLoad /\ [][NextLoad]_vars

\* what FileReader.readAsDataURL gives for an uploaded file: data:<type>;base64,
\* and the payload, as tokens
DataUri(type, payload) == <<"data", ":">> \o type \o <<";", "base64", ",">> \o payload

\* the reference images of the requests: none, a PNG file, a text file
ReferenceImages ==
  {JNull, DataUri(<<"image", "/png">>, <<"iVBOR">>), DataUri(<<"text", "/plain">>, <<"aGk=">>)}

ImageRequests ==
  {[req EXCEPT !.referenceImage = image] : req \in Requests, image \in ReferenceImages}

\* one run of generateWebsite (either entry point) for a request that may carry a
\* reference image, against a provider that rejects nothing
NextImage ==
  \/ \E req \in ImageRequests : StartRun(1, req)
  \/ \E req \in ImageRequests : StartSingle(1, req)
  \/ Select(1)
  \/ \E text \in (IF Me(1).variant = "multi" THEN FileTexts(Me(1)) ELSE TextsFor(Me(1))) :
       RespondText(1, text)
  \/ Wake(1)

SpecImage == Init /\ [][NextImage]_vars

\* two callers of the exported functions at once: their callGeminiAPI calls
\* interleave at the awaits (the module keeps one selector state for all of them)
InitPar == Loaded(1..MaxKeys)

NextPar ==
  \E r \in Runs :
    \/ (hist.calls < MaxParCalls /\ StartCall(r))
    \/ Select(r)
    \/ RespondError(r, "quota")
    \/ \E text \in TextsFor(Me(r)) : RespondText(r, text)
    \/ Wake(r)

SpecPar == InitPar /\ [][NextPar]_vars

\* parseJsonResponse applied to a content and to the same content inside a fenced
\* code block: run 1 holds the content, run 2 the wrapped text
Tokens == {Fence, JsonWord, Space, Prose, Lit(JNull), Lit(JOther)}

RECURSIVE TextsUpTo(_)
TextsUpTo(n) ==
  IF n = 0 THEN {<<>>}
  ELSE LET shorter == TextsUpTo(n - 1)
       IN  shorter \cup {Append(t, tok) : t \in shorter, tok \in Tokens}

Contents == TextsUpTo(MaxTextLen)
OpeningFences == {<<Fence, JsonWord>>, <<Fence>>}
Margins == {<<>>, <<Space>>}

Wrapped(open, margin, content) == margin \o open \o content \o <<Fence>> \o margin

InitParse ==
  /\ API_KEYS = KeysOfLen(0)
  /\ failedKeys = EmptyMap
  /\ currentKeyIndex = 0
  /\ stickyKeyIndex = 0
  /\ now = 0
  /\ hist = [lastSel |-> NoKey, failedSince |-> FALSE, streak |-> <<>>, calls |-> 0,
             errors |-> 0, selAt |-> 0, path |-> "none", repeat |-> FALSE,
             lastFailed |-> NoKey, firstKey |-> [r \in Runs |-> NoKey],
             tried |-> [r \in Runs |-> <<>>], clean |-> [r \in Runs |-> FALSE],
             audit |-> FALSE,
             budget |-> [r \in Runs |-> NoBudget], spent |-> [r \in Runs |-> NoSpent],
             peak |-> [r \in Runs |-> 0], expiredAtRead |-> {}]
  /\ \E content \in Contents, open \in OpeningFences, margin \in Margins :
       run = [r \in Runs |->
                [IdleRun EXCEPT !.pc = "parse", !.variant = "parse",
                                !.text = IF r = 1 THEN content
                                         ELSE Wrapped(open, margin, content)]]

\* return JSON.parse(jsonStr.trim()): the value, or the SyntaxError it throws
Parse(r) ==
  /\ Me(r).pc = "parse"
  /\ LET p == parseJsonResponse(Me(r).text) IN
     SetRun(r, IF p.ok THEN [Me(r) EXCEPT !.pc = "returned", !.data = p.value]
                      ELSE [Me(r) EXCEPT !.pc = "raised", !.error = "SyntaxError"])
  /\ UNCHANGED <<API_KEYS, failedKeys, currentKeyIndex, stickyKeyIndex, now, hist>>

NextParse == \E r \in Runs : Parse(r)

SpecParse == InitParse /\ [][NextParse]_vars

----------------------------------------------------------------------------
(* Properties *)

N == Len(API_KEYS)
Ended(me) == me.pc \in {"returned", "raised"}
SomeSelect == \E r \in Runs : Select(r)
Age(i) == now - failedKeys[i].failedAt
\* the last N recorded failures came without a success in between and hit N
\* distinct credentials
StreakCoversPool ==
  /\ Len(hist.streak) = N
  /\ {hist.streak[i] : i \in 1..Len(hist.streak)} = 0..(N - 1)
\* every credential has a record that the sweep of a selection made now keeps
AllFailedUnexpired ==
  \A i \in 0..(N - 1) : i \in DOMAIN failedKeys /\ Age(i) <= FAILED_KEY_RESET_MS
\* a selection has just returned, at the present clock reading
JustSelected(r) == run[r].pc = "await" /\ hist.selAt = now
IsSeoRecord(v) == {"title", "description", "keywords"} \subseteq DOMAIN v

\* C1: the multi-step generateWebsite never raises to its caller, whatever the
\* pool size, the request and the provider's answers.
C1_NeverRaises ==
  \A r \in Runs : run[r].variant = "multi" => run[r].pc # "raised"

\* C2: a pipeline run that has completed has returned an artifact holding at
\* least three files and an SEO record.
C2_ReturnsNonEmptyArtifact ==
  \A r \in Runs :
    (run[r].variant = "multi" /\ run[r].pc = "returned")
      => /\ Len(run[r].data.files) >= 3
         /\ IsSeoRecord(run[r].data.seo)

\* C3: with a provider that always fails and N >= 1, a run for type website,
\* pages [home, about, contact] and includeAdmin never raises and returns exactly
\* index.html, styles.css, script.js, about.html, contact.html, admin.html, in
\* this order, each the static fallback of its step, with the SEO record computed
\* from the prompt alone.
C3Request(ctx) ==
  /\ ctx.type = "website"
  /\ ctx.selectedPages = <<"home", "about", "contact">>
  /\ ctx.includeAdmin

C3_AllFailSixFallbackFiles ==
  \A r \in Runs :
    LET me == run[r]
        prompt == me.ctx.prompt
    IN  (me.variant = "multi" /\ N >= 1 /\ C3Request(me.ctx))
          => /\ me.pc # "raised"
             /\ me.pc = "returned" =>
                  /\ me.data.files =
                       <<[path |-> <<"index", ".html">>, type |-> "html",
                          content |-> generateFallbackHTML(prompt, me.ctx.language)],
                         [path |-> <<"styles", ".css">>, type |-> "css",
                          content |-> generateFallbackCSS],
                         [path |-> <<"script", ".js">>, type |-> "js",
                          content |-> generateFallbackJS],
                         [path |-> <<"about", ".html">>, type |-> "html",
                          content |-> generateFallbackPage("about", me.ctx)],
                         [path |-> <<"contact", ".html">>, type |-> "html",
                          content |-> generateFallbackPage("contact", me.ctx)],
                         [path |-> <<"admin", ".html">>, type |-> "html",
                          content |-> generateFallbackPage("admin", me.ctx)]>>
                  /\ me.data.seo =
                       [title |-> SubSeq(prompt, 1, Min(60, Len(prompt))),
                        description |-> prompt,
                        keywords |-> "website, landing page"]

C3_Witness ==
  \E r \in Runs :
    /\ run[r].variant = "multi" /\ run[r].pc = "returned"
    /\ N >= 1 /\ C3Request(run[r].ctx)
    /\ Len(run[r].ctx.prompt) > 60
    /\ DOMAIN failedKeys # {}

\* C4: with an empty pool a pipeline run never issues a provider call, never
\* waits, never raises, and returns the static fallback of every step.
C4_EmptyPoolAllFallback ==
  \A r \in Runs :
    LET me == run[r] IN
    (me.variant = "multi" /\ N = 0)
      => /\ me.pc \notin {"await", "backoff", "raised"}
         /\ failedKeys = EmptyMap
         /\ me.pc = "returned" =>
              /\ Len(me.data.files) = Len(Plan(me.ctx)) - 1
              /\ \A i \in 1..Len(me.data.files) :
                   me.data.files[i] = FallbackFile(Plan(me.ctx)[i], me.ctx)
              /\ me.data.seo = FallbackSeo(me.ctx)

C4_Witness ==
  \E r \in Runs :
    /\ run[r].variant = "multi" /\ run[r].pc = "returned" /\ N = 0
    /\ run[r].ctx.includeAdmin
    /\ Len(run[r].data.files) = 4

\* C5: the only failure generateWebsite (either entry point) ever raises to its
\* caller is "No API keys available", and a run made with an empty pool raises
\* it, on its first attempt; provider errors, parse errors, exhausted retries
\* and any other error are never raised.
C5_OnlyNoKeysIsVisible ==
  \A r \in Runs :
    LET me == run[r] IN
    me.variant \in {"multi", "single"}
      => /\ me.pc = "raised" =>
              (me.error = "No API keys available" /\ N = 0 /\ me.attempt = 0)
         /\ N = 0 => me.pc \in {"select", "raised"}

\* C6 as stated: after N consecutive recorded failures, one per distinct
\* credential, the next selection clears all health state and returns
\* credential 0.
C6_ResetAfterNFailures ==
  [][\A r \in Runs :
       (Select(r) /\ N >= 1 /\ StreakCoversPool)
         => (failedKeys' = EmptyMap /\ hist'.lastSel = 0)]_vars

\* C6 amended: after N consecutive recorded failures, one per distinct
\* credential, if every credential still has a record no older than the cooldown
\* when the next selection runs, that selection clears all health state and
\* returns credential 0.
C6_ResetWhileAllUnexpired ==
  [][\A r \in Runs :
       (Select(r) /\ N >= 1 /\ StreakCoversPool /\ AllFailedUnexpired)
         => (failedKeys' = EmptyMap /\ hist'.lastSel = 0)]_vars

C6_Witness ==
  /\ N >= 2
  /\ JustSelected(1)
  /\ hist.path = "reset"
  /\ StreakCoversPool
  /\ failedKeys = EmptyMap

\* C7 as stated: a health record is removed if and only if now - failedAt exceeds
\* the cooldown: never at that age or less, and by the next selection beyond it.
C7_RemovedIffExpired ==
  [][\A i \in DOMAIN failedKeys :
       (i \notin DOMAIN failedKeys')
         <=> (SomeSelect /\ Age(i) > FAILED_KEY_RESET_MS)]_vars

\* C7 amended: a health record is removed only by a selection, and a selection
\* removes it if and only if now - failedAt exceeds the cooldown or every
\* credential of the pool still has a record after the expired ones are swept
\* (the full-pool reset, which removes records of any age).
C7_RemovedIffExpiredOrReset ==
  [][\A i \in DOMAIN failedKeys :
       (i \notin DOMAIN failedKeys')
         <=> (SomeSelect /\ (Age(i) > FAILED_KEY_RESET_MS \/ AllFailedUnexpired))]_vars

C7_Witness ==
  /\ JustSelected(1)
  /\ hist.path # "reset"
  /\ \E i \in DOMAIN failedKeys : Age(i) = FAILED_KEY_RESET_MS

\* C8: two selections with no failure recorded between them return the same
\* credential index, however much time passes between them.
C8_StickyStable ==
  [][\A r \in Runs :
       (Select(r) /\ N >= 1 /\ hist.lastSel # NoKey /\ ~hist.failedSince)
         => hist'.lastSel = hist.lastSel]_vars

C8_Witness ==
  /\ JustSelected(1)
  /\ hist.repeat
  /\ hist.lastSel # 0
  /\ now > FAILED_KEY_RESET_MS

\* C9: with N >= 1 the sticky index is always a valid index 0..N-1, and a
\* selection that finds every credential unhealthy after the sweep clears all
\* health records and returns the first credential with sticky = cursor = 0.
C9_OneStickyAndReset ==
  /\ [](N >= 1 => stickyKeyIndex \in 0..(N - 1))
  /\ [][\A r \in Runs :
          (Select(r) /\ N >= 1 /\ AllFailedUnexpired)
            => /\ failedKeys' = EmptyMap
               /\ hist'.lastSel = 0
               /\ stickyKeyIndex' = 0
               /\ currentKeyIndex' = 0]_vars

C9_Witness ==
  /\ JustSelected(1)
  /\ hist.path = "reset"
  /\ N = 3
  /\ stickyKeyIndex = 0 /\ currentKeyIndex = 0 /\ failedKeys = EmptyMap
  /\ run[1].keyInfo = 0

\* C10: when the sticky credential has no record after the cooldown sweep, the
\* selection returns it and leaves the sticky index, the cursor and every record
\* that is not expired unchanged.
C10_StickyHealthyFrame ==
  [][\A r \in Runs :
       (/\ Select(r)
        /\ N >= 1
        /\ (stickyKeyIndex \in DOMAIN failedKeys
              => Age(stickyKeyIndex) > FAILED_KEY_RESET_MS))
         => /\ hist'.lastSel = stickyKeyIndex
            /\ stickyKeyIndex' = stickyKeyIndex
            /\ currentKeyIndex' = currentKeyIndex
            /\ DOMAIN failedKeys' =
                 {i \in DOMAIN failedKeys : Age(i) <= FAILED_KEY_RESET_MS}
            /\ \A i \in DOMAIN failedKeys' : failedKeys'[i] = failedKeys[i]]_vars

C10_Witness ==
  /\ JustSelected(1)
  /\ hist.path = "sticky"
  /\ DOMAIN failedKeys # {}
  /\ currentKeyIndex # stickyKeyIndex

\* a credential the sweep of a selection made now leaves without a record
HealthyNow(i) == i \notin DOMAIN failedKeys \/ Age(i) > FAILED_KEY_RESET_MS
\* the first credential in cyclic order from the cursor that is healthy now
FirstHealthyFromCursor ==
  LET k == CHOOSE k \in 0..(N - 1) :
             /\ HealthyNow((currentKeyIndex + k) % N)
             /\ \A j \in 0..(k - 1) : ~HealthyNow((currentKeyIndex + j) % N)
  IN  (currentKeyIndex + k) % N

\* C11: when the sticky credential is unhealthy and some credential is healthy,
\* the selection returns the first healthy credential in cyclic order from the
\* cursor, makes it the sticky credential and sets the cursor just after it.
C11_ScanFirstHealthy ==
  [][\A r \in Runs :
       (/\ Select(r)
        /\ N >= 1
        /\ ~HealthyNow(stickyKeyIndex)
        /\ \E i \in 0..(N - 1) : HealthyNow(i))
         => /\ hist'.lastSel = FirstHealthyFromCursor
            /\ stickyKeyIndex' = FirstHealthyFromCursor
            /\ currentKeyIndex' = (FirstHealthyFromCursor + 1) % N]_vars

\* the scan skipped an unhealthy credential at the cursor and wrapped around
C11_Witness ==
  /\ JustSelected(1)
  /\ hist.path = "scan"
  /\ N = 3
  /\ stickyKeyIndex = 0
  /\ currentKeyIndex = 1
  /\ DOMAIN failedKeys = {1, 2}

\* the steps that record a failure of the attempt of run r
FailureRecorded(r) == run[r].pc = "await" /\ hist'.errors = hist.errors + 1

\* C12: recording a failure for credential i creates its record with count 1 or
\* increments the existing count by 1, stamps failedAt with the current time,
\* sets the cursor to (i + 1) mod N, and leaves the sticky index and every other
\* credential's record unchanged.
C12_MarkFailedEffect ==
  [][\A r \in Runs :
       (FailureRecorded(r) /\ run'[r] # run[r])
         => LET i == run[r].keyInfo IN
            /\ DOMAIN failedKeys' = DOMAIN failedKeys \cup {i}
            /\ failedKeys'[i].errorCount =
                 (IF i \in DOMAIN failedKeys THEN failedKeys[i].errorCount + 1 ELSE 1)
            /\ failedKeys'[i].failedAt = now
            /\ currentKeyIndex' = (i + 1) % N
            /\ stickyKeyIndex' = stickyKeyIndex
            /\ \A j \in DOMAIN failedKeys \ {i} : failedKeys'[j] = failedKeys[j]]_vars

\* a second failure of the same credential was counted next to another record
C12_Witness ==
  /\ hist.failedSince
  /\ N = 2
  /\ hist.lastFailed = 0
  /\ DOMAIN failedKeys = {0, 1}
  /\ failedKeys[0].errorCount = 2
  /\ failedKeys[0].failedAt = now
  /\ failedKeys[1].failedAt < now
  /\ currentKeyIndex = 1

\* C13 as stated: after a failure is recorded against credential i, the next
\* selection does not return credential i, for every pool size N >= 1 and every
\* prior health state.
C13_NotImmediatelyRetried ==
  [][\A r \in Runs :
       (Select(r) /\ N >= 1 /\ hist.failedSince)
         => hist'.lastSel # hist.lastFailed]_vars

\* C13 amended: after a failure is recorded against credential i, if i's record
\* has not expired when the next selection runs, that selection does not return
\* i while some credential is healthy, and returns credential 0 after the
\* full-pool reset when none is (so it returns i again when i = 0, always with
\* N = 1).
C13_NotRetriedWhileOthersHealthy ==
  [][\A r \in Runs :
       (Select(r) /\ N >= 1 /\ hist.failedSince /\ ~HealthyNow(hist.lastFailed))
         => IF \E j \in 0..(N - 1) : HealthyNow(j)
              THEN hist'.lastSel # hist.lastFailed
              ELSE hist'.lastSel = 0]_vars

\* the selection after a failure skipped the failed credential, whose record is
\* still there
C13_Witness ==
  /\ JustSelected(1)
  /\ N >= 2
  /\ ~hist.repeat
  /\ hist.path = "scan"
  /\ hist.lastFailed \in DOMAIN failedKeys
  /\ hist.lastSel # hist.lastFailed

Invoking(r) == run[r].variant = "invoke"

\* C14: one callGeminiAPI call makes at most 3 provider attempts; it returns the
\* raw text of the first attempt that succeeds and makes no further attempt; if
\* all 3 attempts fail it raises the error of the third attempt.
C14_ThreeAttemptsFirstSuccess ==
  /\ [](\A r \in Runs : Invoking(r) => run[r].sent <= 3)
  /\ [][\A r \in Runs : \A text \in TextsFor(Me(r)) :
          (Invoking(r) /\ RespondText(r, text))
            => /\ run'[r].pc = "idle"
               /\ run'[r].data = [text |-> text]
               /\ run'[r].error = "none"
               /\ run'[r].sent = run[r].sent]_vars
  /\ [][\A r \in Runs : \A err \in Errors :
          (Invoking(r) /\ RespondError(r, err))
            => IF run[r].sent = 3
                 THEN run'[r].pc = "idle" /\ run'[r].error = err
                                          /\ run'[r].data = Undefined
                 ELSE run'[r].pc = "backoff" /\ run'[r].error = "none"]_vars

\* three attempts failed, each with its own error, and the call raised the last one
C14_Witness ==
  /\ Invoking(1)
  /\ run[1].pc = "idle"
  /\ run[1].sent = 3
  /\ run[1].delays = <<BackoffUnitMs, 2 * BackoffUnitMs>>
  /\ run[1].error = "malformed"
  /\ hist.lastFailed = run[1].keyInfo

\* C15: when the provider fails the first 2 attempts of a call and succeeds on
\* the 3rd, the call returns the successful result, and the backoff delays
\* observed after the 1st and the 2nd failure are 1 unit then 2 units.
C15_BackoffThenSuccess ==
  /\ [][\A r \in Runs : \A text \in TextsFor(Me(r)) :
          (Invoking(r) /\ RespondText(r, text) /\ run[r].sent = 3)
            => /\ run'[r].pc = "idle"
               /\ run'[r].data = [text |-> text]
               /\ run'[r].delays = <<1 * BackoffUnitMs, 2 * BackoffUnitMs>>
               /\ run'[r].delays[1] < run'[r].delays[2]]_vars
  /\ [](\A r \in Runs :
          (Invoking(r) /\ run[r].pc = "backoff")
            => /\ Len(run[r].delays) = run[r].sent
               /\ run[r].wakeAt - failedKeys[run[r].keyInfo].failedAt
                    = run[r].sent * BackoffUnitMs)
  /\ [][\A r \in Runs : Wake(r) => now' >= run[r].wakeAt]_vars

\* two failures, two waits, then the third attempt answered
C15_Witness ==
  /\ Invoking(1)
  /\ run[1].pc = "idle"
  /\ run[1].sent = 3
  /\ run[1].data = [text |-> <<Lit(ProviderSeo)>>]
  /\ run[1].delays = <<1000, 2000>>
  /\ now = 3000

\* C16: with an empty pool callGeminiAPI fails at once with the no-credentials
\* error on its first attempt: no network call, no backoff wait, no retry, and
\* the selector state (records, sticky, cursor) is left unchanged.
C16_EmptyPoolFailsAtOnce ==
  /\ [][\A r \in Runs :
          (Select(r) /\ Invoking(r) /\ N = 0)
            => /\ run[r].attempt = 0
               /\ run'[r].pc = "idle"
               /\ run'[r].error = "No API keys available"
               /\ run'[r].data = Undefined
               /\ UNCHANGED <<failedKeys, stickyKeyIndex, currentKeyIndex, now>>]_vars
  /\ [](N = 0 =>
          \A r \in Runs :
            /\ run[r].sent = 0 /\ run[r].attempt = 0 /\ run[r].delays = <<>>
            /\ run[r].pc \notin {"await", "backoff"}
            /\ failedKeys = EmptyMap /\ stickyKeyIndex = 0 /\ currentKeyIndex = 0)

\* a second call on the empty pool has failed like the first
C16_Witness ==
  /\ N = 0
  /\ Invoking(1)
  /\ run[1].pc = "idle"
  /\ run[1].error = "No API keys available"
  /\ hist.calls = 2
  /\ hist.path = "none"

\* the provider call of run r is rejected
Rejected(r) == run[r].pc = "await" /\ \E err \in Errors : RespondError(r, err)
\* the provider call of run r resolves with a text that does not parse
Unparsable(r) ==
  /\ run[r].pc = "await"
  /\ \E text \in TextsFor(Me(r)) : ~parseJsonResponse(text).ok /\ RespondText(r, text)
\* the provider call of run r resolves with some text
Resolved(r) == run[r].pc = "await" /\ run'[r] # run[r] /\ ~Rejected(r)
\* exactly one failure is recorded against the credential run r used; the run then
\* waits attempt-number x 1s, or does not wait after the last allowed attempt
OneFailureThenBackoff(r) ==
  LET i == run[r].keyInfo IN
  /\ hist'.errors = hist.errors + 1
  /\ DOMAIN failedKeys' = DOMAIN failedKeys \cup {i}
  /\ failedKeys'[i] =
       [failedAt |-> now,
        errorCount |-> IF i \in DOMAIN failedKeys THEN failedKeys[i].errorCount + 1
                                                   ELSE 1]
  /\ \A j \in DOMAIN failedKeys \ {i} : failedKeys'[j] = failedKeys[j]
  /\ IF run[r].sent < 3
       THEN /\ run'[r].pc = "backoff"
            /\ run'[r].wakeAt = now + run[r].sent * 1000
       ELSE /\ run'[r].pc # "backoff"
            /\ run'[r].wakeAt = 0
            /\ now' = now

\* C17 as stated: on any error of an attempt (network error, quota error, or a
\* malformed response from the provider) exactly one failure is recorded against
\* the credential the attempt used; the call then waits attempt-number x 1s
\* before the next attempt and does not wait after the last allowed attempt.
C17_AnyErrorRecorded ==
  [][\A r \in Runs :
       (Rejected(r) \/ Unparsable(r)) => OneFailureThenBackoff(r)]_vars

\* C17 amended: a rejected provider call, and in the single-call generateWebsite
\* also a response text that does not parse, records exactly one failure against
\* the credential used, followed by a wait of attempt-number x 1s except after
\* the last allowed attempt; in the multi-step pipeline a resolved provider call
\* is no attempt error whether its text parses or not: no failure is recorded
\* and there is no wait.
C17_RejectionRecorded ==
  [][\A r \in Runs :
       /\ (Rejected(r) \/ (run[r].variant = "single" /\ Unparsable(r)))
            => OneFailureThenBackoff(r)
       /\ (run[r].variant = "multi" /\ Resolved(r))
            => /\ UNCHANGED <<failedKeys, currentKeyIndex, stickyKeyIndex, now>>
               /\ hist'.errors = hist.errors
               /\ run'[r].pc # "backoff"
               /\ run'[r].wakeAt = 0]_vars

\* the second attempt of the single-call generateWebsite got a text that does not
\* parse: its credential has a record and the call waits 2s
C17_Witness ==
  /\ run[1].variant = "single"
  /\ run[1].pc = "backoff"
  /\ run[1].lastError = "SyntaxError"
  /\ run[1].sent = 2
  /\ run[1].wakeAt = now + 2000
  /\ run[1].keyInfo \in DOMAIN failedKeys
  /\ failedKeys[run[1].keyInfo].failedAt = now

\* the first response of the pending markup step of run r is a file whose content
\* is under the minimum size for markup
UndersizedMarkup(r, text) ==
  LET p == parseJsonResponse(text) IN
  /\ run[r].variant = "multi"
  /\ run[r].pc = "await"
  /\ run[r].phase = 1
  /\ CurrentStep(run[r]).kind \in {"html", "page"}
  /\ p.ok
  /\ p.value # JNull
  /\ "content" \in DOMAIN p.value
  /\ p.value.content.length < MinHtmlChars

\* C18: a markup-generation step (primary page, additional page, admin page)
\* whose first response is under the minimum size threshold issues exactly one
\* corrective re-prompt before accepting or falling back, never a second one.
C18_MarkupRepromptedOnce ==
  /\ [][\A r \in Runs : \A text \in TextsFor(Me(r)) :
          (UndersizedMarkup(r, text) /\ RespondText(r, text))
            => /\ run'[r].step = run[r].step
               /\ run'[r].phase = 2
               /\ run'[r].pc = "select"]_vars
  /\ [][\A r \in Runs :
          (run[r].variant = "multi" /\ run[r].phase = 2 /\ run'[r].step = run[r].step)
            => run'[r].phase = 2]_vars
  /\ [](\A r \in Runs : run[r].phase <= 2)

\* run r is in the corrective re-prompt of its step
Reprompting(r) == run[r].variant = "multi" /\ run[r].phase = 2

\* C19 as stated: the corrective re-prompt for undersized output is attempted
\* only once and does not go through the retry/backoff and credential rotation
\* of callGeminiAPI: it is a single provider attempt.
C19_RepromptSingleAttempt ==
  [](\A r \in Runs :
       /\ run[r].phase <= 2
       /\ Reprompting(r) => (run[r].sent <= 1 /\ run[r].pc # "backoff"))

\* C19 amended: the corrective re-prompt is issued at most once per step, and it
\* is one more callGeminiAPI call: it selects its credential afresh and goes
\* through the same retry, backoff and rotation, up to 3 provider attempts, after
\* which the step takes its fallback.
C19_RepromptOneInvokerCall ==
  /\ [](\A r \in Runs :
          /\ run[r].phase <= 2
          /\ Reprompting(r) => /\ CurrentStep(run[r]).kind \in {"html", "css", "js"}
                                /\ run[r].sent <= 3)
  /\ [][\A r \in Runs :
          /\ (run'[r].phase = 2 /\ run[r].phase # 2)
               => /\ run[r].phase = 1 /\ run'[r].step = run[r].step
                  /\ run'[r].pc = "select" /\ run'[r].sent = 0 /\ run'[r].attempt = 0
          /\ (Reprompting(r) /\ run'[r].phase # 2)
               => (run'[r].step = run[r].step + 1 /\ run'[r].phase = 1)
          /\ (Reprompting(r) /\ Rejected(r))
               => /\ failedKeys'[run[r].keyInfo].failedAt = now
                  /\ IF run[r].sent < 3
                       THEN /\ run'[r].pc = "backoff"
                            /\ run'[r].wakeAt = now + run[r].sent * 1000
                            /\ Reprompting(r)'
                       ELSE /\ run'[r].step = run[r].step + 1
                            /\ run'[r].files =
                                 Append(run[r].files,
                                        FallbackFile(CurrentStep(run[r]), run[r].ctx))]_vars

\* the re-prompt is at its third attempt, after two failures, two waits and a
\* rotation through both credentials
C19_Witness ==
  /\ N = 2
  /\ Reprompting(1)
  /\ run[1].pc = "await"
  /\ run[1].sent = 3
  /\ run[1].delays = <<1000, 2000>>
  /\ hist.path = "reset"

\* C20: parsing a structured response wrapped in a fenced-code marker (a leading
\* fence with or without the json tag, and a trailing fence) yields the same
\* structure as parsing the same content unwrapped, and a text with nothing to
\* parse makes the parser raise instead of returning something.
C20_FencedParsesAsBare ==
  /\ (/\ run[1].variant = "parse"
      /\ JsonParse(Trim(run[1].text)).ok
      /\ run[1].pc # "parse" /\ run[2].pc # "parse")
       => /\ run[1].pc = "returned"
          /\ run[1].data = JsonParse(Trim(run[1].text)).value
          /\ run[2].pc = "returned"
          /\ run[2].data = run[1].data
  /\ \A r \in Runs :
       (/\ run[r].variant = "parse"
        /\ run[r].pc # "parse"
        /\ \A i \in 1..Len(run[r].text) : ~IsLiteral(run[r].text[i]))
         => /\ run[r].pc = "raised"
            /\ run[r].error = "SyntaxError"
            /\ run[r].data = Undefined

\* a payload with blanks around it, inside a tagged fence with blanks around it,
\* has been parsed both ways
C20_Witness ==
  /\ run[1].variant = "parse"
  /\ run[1].text = <<Space, Lit(JOther), Space>>
  /\ run[2].text = <<Space, Fence, JsonWord, Space, Lit(JOther), Space, Fence, Space>>
  /\ run[1].pc = "returned"
  /\ run[2].pc = "returned"
  /\ run[2].data = JOther

\* run r is inside the multi-step pipeline
InPipeline(r) ==
  run[r].variant = "multi" /\ run[r].pc \in {"select", "await", "backoff"}
\* the additional pages a request asks for
PagesWanted(ctx) ==
  IF ctx.type = "website"
    THEN SelectSeq(ctx.selectedPages, LAMBDA p : p # "home")
    ELSE <<>>
\* the names of the steps of a run, in the order the claims give
StepNames(ctx) ==
  <<"index", "styles", "script">> \o PagesWanted(ctx)
  \o (IF ctx.includeAdmin THEN <<"admin">> ELSE <<>>) \o <<"seo">>

\* C21: the steps execute strictly in sequence (primary markup, stylesheet,
\* script, additional pages in request order, admin page, SEO): a step issues
\* its first provider call only after the previous step has produced its file,
\* and within one run no two provider calls are in flight at the same time.
C21_StepsInSequence ==
  /\ [](\A r \in Runs :
          InPipeline(r)
            => /\ run[r].step \in 1..Len(StepNames(run[r].ctx))
               /\ CurrentStep(run[r]).page = StepNames(run[r].ctx)[run[r].step]
               /\ Len(run[r].files) = run[r].step - 1
               /\ run[r].sent = run[r].attempt + (IF run[r].pc = "select" THEN 0 ELSE 1))
  /\ [][\A r \in Runs :
          /\ (InPipeline(r) /\ run'[r].step # run[r].step)
               => /\ run'[r].step = run[r].step + 1
                  /\ Len(run'[r].files) = Len(run[r].files) + 1
                  /\ run'[r].sent = 0
                  /\ run'[r].pc = "select"
          /\ (InPipeline(r) /\ run'[r].sent > run[r].sent)
               => /\ run[r].pc # "await"
                  /\ run'[r].sent = run[r].sent + 1
                  /\ run'[r].pc = "await"]_vars

\* the admin page's call is in flight after the five files before it
C21_Witness ==
  /\ InPipeline(1)
  /\ run[1].pc = "await"
  /\ run[1].ctx.type = "website"
  /\ run[1].ctx.selectedPages = <<"home", "about", "contact">>
  /\ CurrentStep(run[1]).page = "admin"
  /\ Len(run[1].files) = 5
  /\ run[1].sent = 2

\* a request with the prompt and the language of ctx and nothing else of it
PromptAndLanguage(ctx) == [NoCtx EXCEPT !.prompt = ctx.prompt, !.language = ctx.language]

\* C22: a step whose callGeminiAPI call exhausts its retries does not abort the
\* pipeline: every applicable step is executed exactly once, in order, whatever
\* the outcome of the earlier steps, so that a run ends only after its last
\* step, and the file of a failed step is the fallback computed from the prompt
\* and the language (and the page name) only.
C22_ExhaustedStepFallsBack ==
  /\ [][\A r \in Runs :
          /\ (InPipeline(r) /\ Rejected(r) /\ run[r].sent = 3)
               => LET step == CurrentStep(run[r])
                      fallback == FallbackFile(step, PromptAndLanguage(run[r].ctx))
                  IN  IF step.kind = "seo"
                        THEN /\ run'[r].pc = "returned"
                             /\ run'[r].data = [files |-> run[r].files, seo |-> fallback]
                        ELSE /\ run'[r].pc = "select"
                             /\ run'[r].step = run[r].step + 1
                             /\ run'[r].files = Append(run[r].files, fallback)
          /\ (InPipeline(r) /\ run'[r].step # run[r].step)
               => run'[r].step = run[r].step + 1]_vars
  /\ [](\A r \in Runs :
          (run[r].variant = "multi" /\ Ended(run[r]))
            => /\ run[r].step = Len(StepNames(run[r].ctx))
               /\ Len(run[r].files) = Len(StepNames(run[r].ctx)) - 1)

\* P: the selectedPages entries other than home of a website request
PageCount(ctx) ==
  IF ctx.type = "website"
    THEN Cardinality({i \in 1..Len(ctx.selectedPages) : ctx.selectedPages[i] # "home"})
    ELSE 0
\* A: 1 if the admin page is requested
AdminCount(ctx) == IF ctx.includeAdmin THEN 1 ELSE 0

\* C23: the returned file sequence has exactly 3 + P + A entries, in the order
\* primary markup, stylesheet, script, the pages in selectedPages order, admin;
\* entries already appended are never reordered, replaced or removed.
C23_FileCountAndOrder ==
  /\ [](\A r \in Runs :
          (run[r].variant = "multi" /\ run[r].pc = "returned")
            => LET ctx == run[r].ctx
                   files == run[r].data.files
                   pages == PagesWanted(ctx)
               IN  /\ Len(files) = 3 + PageCount(ctx) + AdminCount(ctx)
                   /\ files[1].path = Path("index", ".html")
                   /\ files[2].path = Path("styles", ".css")
                   /\ files[3].path = Path("script", ".js")
                   /\ \A i \in 1..PageCount(ctx) :
                        files[3 + i].path = Path(pages[i], ".html")
                   /\ ctx.includeAdmin
                        => files[Len(files)].path = Path("admin", ".html"))
  /\ [][\A r \in Runs :
          run[r].variant = "multi"
            => \/ run'[r].files = run[r].files
               \/ /\ Len(run'[r].files) = Len(run[r].files) + 1
                  /\ SubSeq(run'[r].files, 1, Len(run[r].files)) = run[r].files]_vars

\* a landing request that names pages and asks for the admin page got four files
C23_Witness ==
  /\ run[1].variant = "multi"
  /\ run[1].pc = "returned"
  /\ run[1].ctx.type = "landing"
  /\ run[1].ctx.selectedPages = <<"home", "about", "contact">>
  /\ run[1].ctx.includeAdmin
  /\ Len(run[1].data.files) = 4
  /\ run[1].data.files[4].content.origin = "provider"

\* run r is waiting for the answer to a prompt of its stylesheet step
StylesheetRequested(r) ==
  /\ run[r].variant = "multi"
  /\ run[r].pc = "await"
  /\ CurrentStep(run[r]).kind = "css"

\* C24: the provider request issued by the stylesheet step depends on the markup
\* content produced by step 1: two runs that differ only in the step-1 markup
\* issue different stylesheet requests.
C24_StylesheetRequestFollowsMarkup ==
  \A r1, r2 \in Runs :
    (/\ StylesheetRequested(r1)
     /\ StylesheetRequested(r2)
     /\ run[r1].ctx = run[r2].ctx
     /\ run[r1].phase = run[r2].phase
     /\ run[r1].files[1].content # run[r2].files[1].content)
      => run[r1].contents # run[r2].contents

\* C25: in a pipeline run during which no provider attempt fails, every provider
\* call of the run (all steps, corrective re-prompts included) uses the same
\* credential, whatever the selector state at the start of the run and whatever
\* cooldowns expire during it.
C25_OneCredentialPerRun ==
  \A r \in Runs :
    (run[r].variant = "multi" /\ run[r].pc = "await")
      => run[r].keyInfo = hist.firstKey[r]

\* the run began on credential 1 because credential 0 had failed; the record of
\* credential 0 has expired since, and the re-prompt of the stylesheet step is
\* out on credential 1
C25_Witness ==
  /\ run[1].variant = "multi"
  /\ run[1].pc = "await"
  /\ run[1].step = 2
  /\ run[1].phase = 2
  /\ hist.firstKey[1] = 1
  /\ run[1].keyInfo = 1
  /\ hist.lastFailed = 0
  /\ failedKeys = EmptyMap
  /\ now > FAILED_KEY_RESET_MS

\* the numbered slots of env that hold a non-blank value
Populated(env) == {i \in 1..NumberedSlots : IsKey(NumberedKey(env, i))}
\* the k-th populated slot in ascending order
NthPopulated(env, k) ==
  CHOOSE i \in Populated(env) : Cardinality({j \in Populated(env) : j < i}) = k - 1
Loading == run[1].pc = "load" /\ run'[1].pc # "load"

\* C26: the key pool is the sequence of the trimmed non-blank values of the
\* numbered slots 1..20 in ascending slot order, each slot optional on its own;
\* the unnumbered credential is loaded if and only if no numbered slot is
\* populated; the pool has at most 20 entries and never changes after load.
C26_PoolIsNumberedSlotsOrSingle ==
  /\ [][Loading =>
          LET env == run[1].data
              pool == API_KEYS'
          IN  /\ Populated(env) # {}
                   => /\ Len(pool) = Cardinality(Populated(env))
                      /\ \A k \in 1..Len(pool) :
                           pool[k] = Trim(NumberedKey(env, NthPopulated(env, k)).str)
              /\ IsKey(SingleKey(env))
                   => ((\E k \in 1..Len(pool) : pool[k] = Trim(SingleKey(env).str))
                         <=> Populated(env) = {})
              /\ (Populated(env) = {} /\ ~IsKey(SingleKey(env))) => pool = <<>>
              /\ (Populated(env) = {} /\ IsKey(SingleKey(env))) => Len(pool) = 1]_vars
  /\ [](Len(API_KEYS) <= NumberedSlots)
  /\ [][run[1].pc # "load" => API_KEYS' = API_KEYS]_vars

\* the pool holds the key of slot 1 and then the key of slot 20, a call has been
\* made with it, and the unnumbered key that was also set is not in it
C26_Witness ==
  /\ API_KEYS = <<<<KeyOf(<<"GEMINI_API_KEY_", 1>>)>>,
                  <<KeyOf(<<"VITE_GEMINI_API_KEY_", NumberedSlots>>)>>>>
  /\ run[1].pc = "await"
  /\ run[1].keyInfo = 1

\* the pending call of pipeline run r resolves with a text that does not parse
StepTextUnparsable(r) ==
  /\ run[r].variant = "multi"
  /\ run[r].pc = "await"
  /\ \E text \in {t \in TextsFor(Me(r)) : ~parseJsonResponse(t).ok} : RespondText(r, text)

\* C27: when a step's provider output is returned successfully but fails
\* structural parsing, the step returns its static fallback, in its first call
\* and in its corrective re-prompt alike; the parse failure is never propagated
\* out of the step.
C27_ParseFailureFallsBack ==
  /\ [][\A r \in Runs :
          StepTextUnparsable(r)
            => LET step == CurrentStep(run[r])
                   fallback == FallbackFile(step, run[r].ctx)
               IN  /\ run'[r].error # "SyntaxError"
                   /\ IF step.kind = "seo"
                        THEN /\ run'[r].seo = fallback
                             /\ run'[r].files = run[r].files
                             /\ run'[r].pc = "returned" => run'[r].data.seo = fallback
                        ELSE /\ run'[r].pc = "select"
                             /\ run'[r].step = run[r].step + 1
                             /\ run'[r].phase = 1
                             /\ run'[r].files = Append(run[r].files, fallback)]_vars
  /\ [](\A r \in Runs : run[r].variant = "multi" => run[r].error # "SyntaxError")

\* with a credential at hand and no call rejected, the run returned the fallback
\* SEO record: the answer to the SEO prompt did not parse
C27_Witness ==
  /\ run[1].variant = "multi"
  /\ run[1].pc = "returned"
  /\ Len(API_KEYS) >= 1
  /\ hist.errors = 0
  /\ run[1].data.seo = FallbackSeo(run[1].ctx)
  /\ run[1].data.files[1].content.origin = "provider"

\* the position of the first token tok of s
FirstAt(s, tok) == CHOOSE i \in 1..Len(s) : s[i] = tok /\ \A j \in 1..(i - 1) : s[j] # tok
\* the declared type of a data URI and the payload after its comma
MimeOf(uri) == SubSeq(uri, FirstAt(uri, ":") + 1, FirstAt(uri, ";") - 1)
PayloadOf(uri) == SubSeq(uri, FirstAt(uri, ",") + 1, Len(uri))
IsImageUri(image) == image # JNull /\ StartsWith(image, DataImage)

\* C28: when the request carries a reference image as a data:image URI, the
\* provider call includes it as inline image data, with the MIME type and the
\* base64 payload (the part after the comma) extracted from the URI; without a
\* reference image the call carries text only.
C28_ImageSentInline ==
  \A r \in Runs :
    (run[r].variant \in {"multi", "single"} /\ run[r].pc = "await")
      => LET image == run[r].ctx.referenceImage
             parts == run[r].contents[1].parts
         IN  IF IsImageUri(image)
               THEN \E k \in 1..Len(parts) :
                      /\ "inlineData" \in DOMAIN parts[k]
                      /\ parts[k].inlineData =
                           [mimeType |-> MimeOf(image), data |-> PayloadOf(image)]
               ELSE \A k \in 1..Len(parts) : DOMAIN parts[k] = {"text"}

\* the step records a failure of an attempt made with credential i
FailureRecordedFor(i) ==
  /\ hist'.errors = hist.errors + 1
  /\ \E r \in Runs : run[r].pc = "await" /\ run[r].keyInfo = i

\* C29: health records are created only by failure recording and deleted only by
\* the cooldown sweep or a full-pool reset; a successful provider attempt leaves
\* every health record (error counts included), the sticky index and the cursor
\* exactly as the preceding selection left them.
C29_RecordsChangeOnlyByFailureSweepReset ==
  [][/\ \A i \in DOMAIN failedKeys' :
          (i \notin DOMAIN failedKeys \/ failedKeys'[i] # failedKeys[i])
            => FailureRecordedFor(i)
     /\ \A i \in DOMAIN failedKeys :
          i \notin DOMAIN failedKeys'
            => /\ SomeSelect
               /\ Age(i) > FAILED_KEY_RESET_MS \/ hist'.path = "reset"
     /\ \A r \in Runs :
          Resolved(r) => UNCHANGED <<failedKeys, currentKeyIndex, stickyKeyIndex>>]_vars

\* the second attempt of a call has succeeded on credential 1 after the first
\* failed on credential 0, whose record with count 1 is still there
C29_Witness ==
  /\ Len(API_KEYS) = 3
  /\ run[1].variant = "invoke"
  /\ run[1].pc = "idle"
  /\ run[1].sent = 2
  /\ run[1].keyInfo = 1
  /\ run[1].data # Undefined
  /\ DOMAIN failedKeys = {0}
  /\ failedKeys[0].errorCount = 1
  /\ stickyKeyIndex = 1
  /\ currentKeyIndex = 2

\* C30: every selection with N >= 1 returns an index in 0..N-1 whose credential
\* has no health record at the moment of return; so no provider attempt is made
\* with a credential that is marked unhealthy, and the cursor and the sticky index
\* stay within 0..N-1 in every reachable state.
C30_SelectionHealthyAndInRange ==
  /\ [][(SomeSelect /\ N >= 1)
          => /\ hist'.lastSel \in 0..(N - 1)
             /\ hist'.lastSel \notin DOMAIN failedKeys'
             /\ \A r \in Runs :
                  (run[r].pc = "select" /\ run'[r].pc = "await")
                    => run'[r].keyInfo = hist'.lastSel]_vars
  /\ [](\A r \in Runs : run[r].pc = "await" => run[r].keyInfo \notin DOMAIN failedKeys)
  /\ [](N >= 1 => (currentKeyIndex \in 0..(N - 1) /\ stickyKeyIndex \in 0..(N - 1)))

\* credentials 0 and 1 are unhealthy, the scan has returned credential 2 and
\* wrapped the cursor to 0, and the attempt with credential 2 is out
C30_Witness ==
  /\ Len(API_KEYS) = 3
  /\ run[1].pc = "await"
  /\ run[1].keyInfo = 2
  /\ hist.path = "scan"
  /\ DOMAIN failedKeys = {0, 1}
  /\ currentKeyIndex = 0
  /\ stickyKeyIndex = 2

\* the records a sweep made now keeps
Unexpired == {i \in DOMAIN failedKeys : Age(i) <= FAILED_KEY_RESET_MS}

\* C31: a selection clears the whole health map only if, after the cooldown
\* sweep, every one of the N credentials has a health record; if any credential
\* is healthy, the selection returns a healthy credential and removes no record
\* other than expired ones.
C31_ResetOnlyWhenPoolExhausted ==
  [][(SomeSelect /\ N >= 1)
       => /\ hist'.path = "reset" => AllFailedUnexpired
          /\ (\E i \in 0..(N - 1) : HealthyNow(i))
               => /\ hist'.path # "reset"
                  /\ HealthyNow(hist'.lastSel)
                  /\ failedKeys' = [i \in Unexpired |-> failedKeys[i]]]_vars

\* of three credentials, 0 and 1 had failed; the selection swept the expired
\* record of 0, kept the record of 1 at exactly the cooldown age, and returned 2
C31_Witness ==
  /\ Len(API_KEYS) = 3
  /\ JustSelected(1)
  /\ hist.path = "scan"
  /\ hist.lastSel = 2
  /\ DOMAIN failedKeys = {1}
  /\ Age(1) = FAILED_KEY_RESET_MS

\* C32: the cooldown sweep runs before the sticky check: if the sticky credential
\* has a record older than the cooldown at selection time, the selection removes
\* the record and returns the same sticky credential without rotating (sticky
\* and cursor unchanged), even if other credentials are healthy.
C32_ExpiredStickyReturned ==
  [][(/\ SomeSelect
      /\ N >= 1
      /\ stickyKeyIndex \in DOMAIN failedKeys
      /\ Age(stickyKeyIndex) > FAILED_KEY_RESET_MS)
       => /\ stickyKeyIndex \notin DOMAIN failedKeys'
          /\ hist'.lastSel = stickyKeyIndex
          /\ hist'.path = "sticky"
          /\ UNCHANGED <<stickyKeyIndex, currentKeyIndex>>]_vars

\* the credential that failed last was returned again by the very next
\* selection through the sticky return, with the other two credentials healthy
\* and the cursor still just after it
C32_Witness ==
  /\ Len(API_KEYS) = 3
  /\ JustSelected(1)
  /\ hist.path = "sticky"
  /\ ~hist.repeat
  /\ hist.lastFailed = hist.lastSel
  /\ stickyKeyIndex = hist.lastSel
  /\ currentKeyIndex = (stickyKeyIndex + 1) % 3
  /\ failedKeys = EmptyMap

\* C33: when the calls are made one after another (selections and failure
\* recordings alternate as callGeminiAPI issues them), every health record in
\* every reachable state has an error count of exactly 1: a credential with a
\* record is never attempted again before its record is deleted.
C33_ErrorCountIsOne ==
  /\ [](\A i \in DOMAIN failedKeys : failedKeys[i].errorCount = 1)
  /\ [][\A r \in Runs :
          (FailureRecorded(r) /\ run'[r] # run[r])
            => /\ run[r].keyInfo \notin DOMAIN failedKeys
               /\ failedKeys'[run[r].keyInfo].errorCount = 1]_vars

\* credential 0 of two has failed for the second time, after a full-pool reset,
\* and its record counts one error
C33_Witness ==
  /\ Len(API_KEYS) = 2
  /\ hist.errors = 3
  /\ hist.lastFailed = 0
  /\ DOMAIN failedKeys = {0}
  /\ failedKeys[0].errorCount = 1
  /\ failedKeys[0].failedAt > 0

\* C34: with two runs interleaved on the shared selector state, the selector's
\* safety invariants still hold (sticky and cursor in 0..N-1, every selection
\* returns a credential with no health record); but a failure can be recorded
\* against a credential that is no longer the sticky one, so a record's error
\* count can exceed 1 (it stays within the number of interleaved runs) and the
\* cursor can be moved back behind the current sticky credential (the witness).
C34_SafetyUnderInterleaving ==
  /\ [](N >= 1 => (stickyKeyIndex \in 0..(N - 1) /\ currentKeyIndex \in 0..(N - 1)))
  /\ [][(SomeSelect /\ N >= 1)
          => (hist'.lastSel \in 0..(N - 1) /\ hist'.lastSel \notin DOMAIN failedKeys')]_vars
  /\ [](\A i \in DOMAIN failedKeys :
          failedKeys[i].errorCount \in 1..Cardinality(Runs))

\* both calls were out on credential 0; the first failed and its retry made
\* credential 1 sticky and put the cursor at 0; then the second failed on
\* credential 0, which now counts 2 errors, and set the cursor to 1, where the
\* sticky credential is
C34_Witness ==
  /\ Len(API_KEYS) = 2
  /\ hist.lastFailed = 0
  /\ stickyKeyIndex = 1
  /\ currentKeyIndex = 1
  /\ 0 \in DOMAIN failedKeys
  /\ failedKeys[0].errorCount = 2
  /\ \E r \in Runs : run[r].pc = "await" /\ run[r].keyInfo = 1

\* the credentials the attempts of the current call of run r have used so far
Tried(r) == hist.tried[r]
\* every credential was healthy at the first selection of the call of run r and
\* no later selection of the call has swept an expired record
CleanCall(r) == hist.clean[r]

\* C35: in one callGeminiAPI call whose 3 attempts all fail, with a pool of
\* N >= 3 credentials that are all healthy at the start and no cooldown expiring
\* during the call, the 3 attempts use 3 pairwise distinct credentials, taken in
\* cyclic order starting at the sticky credential.
C35_DistinctCredentialsInCyclicOrder ==
  /\ [](\A r \in Runs :
          (Invoking(r) /\ N >= 3 /\ CleanCall(r))
            => /\ \A k \in 1..Len(Tried(r)) : Tried(r)[k] = (Tried(r)[1] + (k - 1)) % N
               /\ \A j, k \in 1..Len(Tried(r)) : j # k => Tried(r)[j] # Tried(r)[k])
  /\ [][\A r \in Runs :
          (Select(r) /\ Invoking(r) /\ run[r].sent = 0 /\ N >= 3 /\ hist'.clean[r])
            => hist'.tried[r] = <<stickyKeyIndex>>]_vars

\* a call that began with credential 1 sticky and every credential healthy has
\* failed three times: on 1, on 2 and on 0
C35_Witness ==
  /\ Len(API_KEYS) = 3
  /\ Invoking(1)
  /\ run[1].pc = "idle"
  /\ run[1].sent = 3
  /\ run[1].error # "none"
  /\ CleanCall(1)
  /\ Tried(1) = <<1, 2, 0>>

\* the attempts, failures and waits of the step run r is in, and of the step it
\* has left most recently
Budget(r) == hist.budget[r]
Spent(r) == hist.spent[r]
\* the most attempts a step of the given kind may make
AttemptBound(kind) ==
  IF kind \in {"html", "css", "js"} THEN 2 * MAX_RETRIES ELSE MAX_RETRIES
\* what the step run r has left most recently has produced
Produced(r) ==
  IF Spent(r).kind = "seo" THEN run[r].seo ELSE run[r].files[Len(run[r].files)]
StepJustLeft(r) ==
  Plan(run[r].ctx)[IF Spent(r).kind = "seo" THEN Len(Plan(run[r].ctx))
                                            ELSE Len(run[r].files)]

\* C36: per run the number of provider attempts is bounded: the primary-markup,
\* stylesheet and script steps make at most 6 attempts each (3 for the first
\* request plus 3 for the corrective re-prompt), each additional page, the admin
\* page and the SEO step at most 3 each; a step whose every attempt the provider
\* rejects, as every step is with a provider that always fails, makes with N >= 1
\* exactly 3 attempts, records exactly 3 failures and waits exactly two backoff
\* delays before it falls back.
C36_AttemptBudgetPerStep ==
  \A r \in Runs :
    /\ InPipeline(r) => Budget(r).sent <= AttemptBound(CurrentStep(run[r]).kind)
    /\ Spent(r).kind # "none" => Spent(r).sent <= AttemptBound(Spent(r).kind)
    /\ (Spent(r).kind # "none" /\ N >= 1 /\ Spent(r).failed = Spent(r).sent)
         => /\ Spent(r).sent = 3
            /\ Spent(r).failed = 3
            /\ Spent(r).waits = 2
            /\ Produced(r) = FallbackFile(StepJustLeft(r), run[r].ctx)

\* a run has returned: one of its steps has used all 6 attempts (two rejected
\* and an undersized answer, then three more), and the SEO step has seen all its
\* 3 attempts rejected
C36_Witness ==
  /\ N >= 1
  /\ run[1].pc = "returned"
  /\ hist.peak[1] = 2 * MAX_RETRIES
  /\ Spent(1) = [kind |-> "seo", calls |-> 1, sent |-> 3, failed |-> 3, waits |-> 2]
  /\ run[1].seo = FallbackSeo(run[1].ctx)

\* the file the step run r is in appends to files in this transition
FileAdded(r) == run'[r].files[Len(run'[r].files)]
\* the step run r is in ends in this transition
StepEnds(r) == run'[r].step # run[r].step

\* C37: in the primary-markup, stylesheet and script steps, the response to the
\* corrective re-prompt is accepted without measuring its size again; and if the
\* corrective re-prompt fails (retries exhausted or unparsable output), the step
\* returns the static fallback, discarding the first response that parsed
\* successfully but was undersized.
C37_RepromptAnswerUnmeasured ==
  [][\A r \in Runs :
       (Reprompting(r) /\ run[r].pc = "await")
         => LET step == CurrentStep(run[r])
                fallback == FallbackFile(step, run[r].ctx)
            IN  /\ step.kind \in {"html", "css", "js"}
                /\ \A text \in BudgetTexts(Me(r)) :
                     RespondText(r, text)
                       => /\ StepEnds(r)
                          /\ Len(run'[r].files) = Len(run[r].files) + 1
                          /\ FileAdded(r) = IF parseJsonResponse(text).ok
                                              THEN parseJsonResponse(text).value
                                              ELSE fallback
                /\ (StepEnds(r) /\ \E err \in Errors : RespondError(r, err))
                     => /\ Len(run'[r].files) = Len(run[r].files) + 1
                        /\ FileAdded(r) = fallback]_vars

\* a run whose re-prompt for index.html was answered with an undersized file,
\* which is its first file, and whose re-prompt for styles.css was answered with
\* prose, so that its second file is the fallback stylesheet
C37_Witness ==
  /\ run[1].variant = "multi"
  /\ Len(run[1].files) = 2
  /\ run[1].files[1] = ProviderFile(Path("index", ".html"), MinHtmlChars - 1, "html")
  /\ Spent(1) = [kind |-> "css", calls |-> 2, sent |-> 2, failed |-> 0, waits |-> 0]
  /\ run[1].files[2] = FallbackFile([kind |-> "css", page |-> "styles"], run[1].ctx)

\* C38: in the multi-step pipeline, a provider output that is returned
\* successfully but cannot be parsed is not recorded as a failure against the
\* credential that produced it and is not retried: the step falls back after
\* that single callGeminiAPI call, and the selector state is the same as after a
\* successful call, which leaves it as it was.
C38_UnparsableOutputLeavesSelector ==
  [][\A r \in Runs :
       (run[r].variant = "multi" /\ run[r].pc = "await")
         => \A text \in BudgetTexts(Me(r)) :
              RespondText(r, text)
                => /\ UNCHANGED <<failedKeys, currentKeyIndex, stickyKeyIndex>>
                   /\ ~parseJsonResponse(text).ok
                        => /\ run[r].keyInfo \notin DOMAIN failedKeys'
                           /\ hist'.errors = hist.errors
                           /\ hist'.spent[r] = [kind |-> CurrentStep(run[r]).kind,
                                                calls |-> run[r].phase,
                                                sent |-> hist.budget[r].sent,
                                                failed |-> hist.budget[r].failed,
                                                waits |-> hist.budget[r].waits]
                           /\ hist'.budget[r] = NoBudget
                           /\ run'[r].pc \in {"select", "returned"}
                           /\ run'[r].sent = IF run'[r].pc = "select" THEN 0
                                                                      ELSE run[r].sent
                           /\ IF CurrentStep(run[r]).kind = "seo"
                                THEN run'[r].seo = FallbackSeo(run[r].ctx)
                                ELSE /\ StepEnds(r)
                                     /\ FileAdded(r) = FallbackFile(CurrentStep(run[r]),
                                                                    run[r].ctx)]_vars

\* the first attempt for index.html was rejected on credential 0 and the second,
\* on credential 1, was answered with prose: the step has fallen back after its
\* one callGeminiAPI call, credential 1 is sticky and has no record
C38_Witness ==
  /\ Len(API_KEYS) = 2
  /\ run[1].variant = "multi"
  /\ run[1].files = <<FallbackFile([kind |-> "html", page |-> "index"], run[1].ctx)>>
  /\ Spent(1) = [kind |-> "html", calls |-> 1, sent |-> 2, failed |-> 1, waits |-> 1]
  /\ DOMAIN failedKeys = {0}
  /\ stickyKeyIndex = 1
  /\ hist.errors = 1

\* the path the file of a step is to carry
StepPath(step) ==
  Path(step.page, CASE step.kind = "css" -> ".css"
                    [] step.kind = "js" -> ".js"
                    [] OTHER -> ".html")

\* C39: every file in a returned artifact is well-formed and consistent with its
\* step whatever the provider returns: it has a path, a content and a kind, and
\* the file produced by a step carries that step's path (index.html, styles.css,
\* script.js, <page>.html), also when the provider's parsed output omits or
\* changes these fields.
C39_ArtifactFilesWellFormed ==
  \A r \in Runs :
    (run[r].variant = "multi" /\ run[r].pc = "returned")
      => \A i \in 1..Len(run[r].data.files) :
           LET file == run[r].data.files[i] IN
           /\ {"path", "content", "type"} \subseteq DOMAIN file
           /\ file.path = StepPath(Plan(run[r].ctx)[i])

\* the 1-based positions of the credentials that have a health record
RecordedPositions == {p \in 1..N : (p - 1) \in DOMAIN failedKeys}
\* the credentials whose record has outlived the cooldown
Expired == {i \in DOMAIN failedKeys : Age(i) > FAILED_KEY_RESET_MS}
\* the credentials whose record had outlived the cooldown when the key status
\* was last read
ExpiredAtRead == hist.expiredAtRead

\* C40: getKeyStatus reads but never changes the selector state, and in every
\* reachable state reports total = N, failed = the 1-based positions of the
\* credentials that have a health record, and available = total - |failed| with
\* 0 <= available <= total; it performs no cooldown sweep, so it reports a
\* credential whose cooldown has elapsed as failed, until the next selection,
\* which leaves no expired record behind.
C40_KeyStatusReadsOnly ==
  /\ [](LET status == getKeyStatus(API_KEYS, failedKeys) IN
         /\ status.total = N
         /\ status.failed = RecordedPositions
         /\ status.available = status.total - Cardinality(status.failed)
         /\ 0 <= status.available /\ status.available <= status.total
         /\ \A i \in Expired : (i + 1) \in status.failed)
  /\ [][\A r \in Runs :
          KeyStatus(r)
            => /\ UNCHANGED <<API_KEYS, failedKeys, currentKeyIndex, stickyKeyIndex, now>>
               /\ run'[r].data = [total |-> N,
                                  available |-> N - Cardinality(RecordedPositions),
                                  failed |-> RecordedPositions]]_vars
  /\ [][SomeSelect => \A i \in DOMAIN failedKeys' :
                         now - failedKeys'[i].failedAt <= FAILED_KEY_RESET_MS]_vars

\* with two credentials, the second caller has read the status while the record
\* of credential 0 was older than the cooldown: the status lists position 1 as
\* failed and counts one credential as available
C40_Witness ==
  /\ N = 2
  /\ run[2].variant = "status"
  /\ ExpiredAtRead = {0}
  /\ run[2].data = [total |-> 2, available |-> 1, failed |-> {1}]

====
